---------------------------- MODULE Spec2Model ----------------------------
(***************************************************************************)
(* A model of germi: the tokenizing scanner (src/src/scanner.rs), the      *)
(* recursive resolver (src/src/interpolator.rs) and the reference          *)
(* extractor (src/src/lib.rs).                                             *)
(*                                                                         *)
(* A text is a sequence of characters; a character is a one-element atom   *)
(* written as a string.  Offsets are 0-based as in the source; every       *)
(* character of the model is one byte wide, so char offsets and byte       *)
(* offsets coincide.                                                       *)
(***************************************************************************)
EXTENDS Integers, Sequences, FiniteSets, TLC

VARIABLES
    context,    \* Germi.context: the provider's bindings, name -> value
    config,     \* Germi.config: max_depth and the feature toggles
    input,      \* the text handed to the operation
    extra_vars, \* the extra bindings handed to interpolate_with
    pc,         \* "idle" | "await" (a command is running) | "done"
    op,         \* the operation that was called
    result,     \* what interpolate / interpolate_async returned, once pc = "done"
    refs,       \* what find_variable_references returned, once pc = "done"
    frame,      \* the locals of resolve_commands while it is suspended
    running,    \* the command string handed to the shell while pc = "await"
    executed,   \* the command strings handed to the shell so far, in order
    exits,      \* how each executed command ended, in order of completion
    byte_idx,   \* Scanner.byte_idx of a Scanner::new(input) the caller drives
    scans       \* what each scan_next call on that scanner returned, in order

vars == <<context, config, input, extra_vars, pc, op, result, refs, frame,
          running, executed, exits, byte_idx, scans>>

-----------------------------------------------------------------------------
(* Characters *)

BS  == "\\"
SQ  == "'"
DQ  == "\""
BT  == "BT"      \* the backtick
DOLLAR == "$"
NUL == "NUL"     \* the character 0x00
SOH == "SOH"     \* the character 0x01
NL  == "NL"      \* newline
CR  == "CR"      \* carriage return
TAB == "TAB"     \* tab
SP  == " "

\* The letter e with acute accent (U+00E9), outside ASCII. Offsets count
\* characters, which are bytes for every other character here.
EACUTE == "EACUTE"

\* The characters char::is_alphabetic accepts: the ASCII letters in use and
\* one letter outside ASCII.
AsciiLetters == {"A", "B", "C", "M", "S", "U", "a", "c", "d", "e", "n", "r", "t", "v", "x"}
Letters == AsciiLetters \cup {EACUTE}
Digits  == {"0", "1"}

IsAlphabetic(c)   == c \in Letters
IsAlphanumeric(c) == c \in Letters \cup Digits
IsWhitespace(c)   == c \in {SP, NL, CR, TAB}

-----------------------------------------------------------------------------
(* Slices of a text, with the source's 0-based half-open ranges *)

At(s, i) == s[i + 1]
Slice(s, a, b) == SubSeq(s, a + 1, b)
From(s, a) == SubSeq(s, a + 1, Len(s))
Contains(s, c) == \E i \in 1..Len(s) : s[i] = c
ContainsPair(s, c1, c2) == \E i \in 1..(Len(s) - 1) : s[i] = c1 /\ s[i + 1] = c2

Some(v) == [some |-> TRUE, v |-> v]
None == [some |-> FALSE]

-----------------------------------------------------------------------------
(* Errors (src/src/error.rs) *)

RecursiveLookup(text) == [kind |-> "RecursiveLookup", text |-> text]
MissingVar(name)      == [kind |-> "MissingVar", name |-> name]
SyntaxError(msg, pos) == [kind |-> "SyntaxError", msg |-> msg, pos |-> pos]
UnclosedBrace(pos)    == [kind |-> "UnclosedBrace", pos |-> pos]
UnclosedQuote(pos)    == [kind |-> "UnclosedQuote", pos |-> pos]
CommandError(stderr)  == [kind |-> "CommandError", stderr |-> stderr]
IoError(msg)          == [kind |-> "IoError", msg |-> msg]

-----------------------------------------------------------------------------
(* Tokens and the scanner (src/src/scanner.rs) *)

Literal(text) == [type |-> "Literal", text |-> text]
Variable(name, default, strict, conditional) ==
    [type |-> "Variable", name |-> name, default |-> default,
     strict |-> strict, conditional |-> conditional]
Command(text) == [type |-> "Command", text |-> text]
BacktickCommand(text) == [type |-> "BacktickCommand", text |-> text]

\* What scan_next returns, with the cursor it leaves in self.byte_idx.
ScanToken(token, start, end) ==
    [kind |-> "token", token |-> token, start |-> start, end |-> end]
ScanNone(end) == [kind |-> "none", end |-> end]
ScanErr(err) == [kind |-> "error", err |-> err]

\* The two memchr searches of scan_next combined: the offset of the first
\* special character at or after `from`, or Len(s) when there is none.
RECURSIVE FindSpecial(_, _)
FindSpecial(s, from) ==
    IF from >= Len(s) THEN Len(s)
    ELSE IF At(s, from) \in {DOLLAR, BS, SQ, BT} THEN from
    ELSE FindSpecial(s, from + 1)

\* The single-quote block of scan_next: from the offset after the opening
\* quote to the cursor after the closing quote, or Len(s) when unclosed.
RECURSIVE SkipSingleQuote(_, _)
SkipSingleQuote(s, from) ==
    IF from >= Len(s) THEN Len(s)
    ELSE IF At(s, from) = BS
         THEN IF from + 1 < Len(s) THEN SkipSingleQuote(s, from + 2) ELSE Len(s)
    ELSE IF At(s, from) = SQ THEN from + 1
    ELSE SkipSingleQuote(s, from + 1)

\* parse_command_substitution's loop: the offset of the closing parenthesis that brings the
\* depth to zero, or -1. i is an offset into s; quote is "" or the open quote character.
RECURSIVE FindCloseParen(_, _, _, _)
FindCloseParen(s, i, depth, quote) ==
    IF i >= Len(s) THEN -1
    ELSE LET c == At(s, i) IN
         IF quote = SQ
         THEN FindCloseParen(s, i + 1, depth, IF c = SQ THEN "" ELSE SQ)
         ELSE IF quote = DQ
         THEN IF c = DQ THEN FindCloseParen(s, i + 1, depth, "")
              ELSE IF c = BS THEN FindCloseParen(s, i + 2, depth, DQ)
              ELSE FindCloseParen(s, i + 1, depth, DQ)
         ELSE IF c = "(" THEN FindCloseParen(s, i + 1, depth + 1, "")
         ELSE IF c = ")"
         THEN IF depth - 1 = 0 THEN i ELSE FindCloseParen(s, i + 1, depth - 1, "")
         ELSE IF c = SQ THEN FindCloseParen(s, i + 1, depth, SQ)
         ELSE IF c = DQ THEN FindCloseParen(s, i + 1, depth, DQ)
         ELSE IF c = BS THEN FindCloseParen(s, i + 2, depth, "")
         ELSE FindCloseParen(s, i + 1, depth, "")

parse_command_substitution(s, start_idx) ==
    LET inner_start == start_idx + 2
        end_idx == FindCloseParen(s, inner_start, 1, "")
    IN  IF end_idx < 0
        THEN ScanErr(SyntaxError("Unclosed command substitution", start_idx))
        ELSE ScanToken(Command(Slice(s, inner_start, end_idx)), start_idx, end_idx + 1)

\* parse_backtick_command's loop: the offset of the closing backtick, or -1.
\* A backslash consumes the character after it, whatever it is.
RECURSIVE FindCloseBacktick(_, _)
FindCloseBacktick(s, i) ==
    IF i >= Len(s) THEN -1
    ELSE IF At(s, i) = BS THEN FindCloseBacktick(s, i + 2)
    ELSE IF At(s, i) = BT THEN i
    ELSE FindCloseBacktick(s, i + 1)

\* A parse_backtick_command whose command text keeps the opening backtick.
parse_backtick_command_keeps_delimiter(s, start_idx) ==
    LET inner_start == start_idx + 1
        end_idx == FindCloseBacktick(s, inner_start)
    IN  IF end_idx < 0
        THEN ScanErr(SyntaxError("Unclosed backtick command", start_idx))
        ELSE ScanToken(BacktickCommand(Slice(s, start_idx, end_idx)), start_idx, end_idx + 1)

\* A parse_backtick_command that reports the offset after the backtick.
parse_backtick_command_inner_offset(s, start_idx) ==
    LET inner_start == start_idx + 1
        end_idx == FindCloseBacktick(s, inner_start)
    IN  IF end_idx < 0
        THEN ScanErr(SyntaxError("Unclosed backtick command", inner_start))
        ELSE ScanToken(BacktickCommand(Slice(s, inner_start, end_idx)), start_idx, end_idx + 1)

parse_backtick_command(s, start_idx) ==
    LET inner_start == start_idx + 1
        end_idx == FindCloseBacktick(s, inner_start)
    IN  IF end_idx < 0
        THEN ScanErr(SyntaxError("Unclosed backtick command", start_idx))
        ELSE ScanToken(BacktickCommand(Slice(s, inner_start, end_idx)), start_idx, end_idx + 1)

\* parse_simple_variable's loop: the end of the longest run of alphanumeric
\* or underscore characters from offset i.
RECURSIVE NameEnd(_, _)
NameEnd(s, i) ==
    IF i < Len(s) /\ (IsAlphanumeric(At(s, i)) \/ At(s, i) = "_")
    THEN NameEnd(s, i + 1)
    ELSE i

parse_simple_variable(s, start_idx) ==
    LET end == NameEnd(s, start_idx + 1)
    IN  ScanToken(Variable(Slice(s, start_idx + 1, end), None, FALSE, FALSE),
                  start_idx, end)

\* parse_braced_variable's first loop: the offset of the closing brace that brings the
\* balance to zero, or -1.
RECURSIVE FindCloseBrace(_, _, _)
FindCloseBrace(s, i, balance) ==
    IF i >= Len(s) THEN -1
    ELSE IF At(s, i) = "}"
         THEN IF balance - 1 = 0 THEN i ELSE FindCloseBrace(s, i + 1, balance - 1)
    ELSE IF At(s, i) = "{" THEN FindCloseBrace(s, i + 1, balance + 1)
    ELSE FindCloseBrace(s, i + 1, balance)

\* A modifier search in which the first - or + ends the name and a colon
\* before it is left in the name.
RECURSIVE FindModifier_ignores_colon(_, _)
FindModifier_ignores_colon(content, i) ==
    IF i >= Len(content) THEN [found |-> FALSE]
    ELSE IF At(content, i) \in {"-", "+"}
    THEN [found |-> TRUE, name_len |-> i, strict |-> FALSE,
          conditional |-> At(content, i) = "+", start |-> i + 1]
    ELSE FindModifier_ignores_colon(content, i + 1)

\* parse_braced_variable's second loop over the content: the first modifier,
\* as [found, name_len, strict, conditional, start].
RECURSIVE FindModifier(_, _)
FindModifier(content, i) ==
    IF i >= Len(content) THEN [found |-> FALSE]
    ELSE LET c == At(content, i) IN
         IF c = ":"
         THEN IF i + 1 < Len(content) /\ At(content, i + 1) = "-"
              THEN [found |-> TRUE, name_len |-> i, strict |-> TRUE,
                    conditional |-> FALSE, start |-> i + 2]
              ELSE IF i + 1 < Len(content) /\ At(content, i + 1) = "+"
              THEN [found |-> TRUE, name_len |-> i, strict |-> TRUE,
                    conditional |-> TRUE, start |-> i + 2]
              ELSE FindModifier(content, i + 1)
         ELSE IF c = "-"
         THEN [found |-> TRUE, name_len |-> i, strict |-> FALSE,
               conditional |-> FALSE, start |-> i + 1]
         ELSE IF c = "+"
         THEN [found |-> TRUE, name_len |-> i, strict |-> FALSE,
               conditional |-> TRUE, start |-> i + 1]
         ELSE FindModifier(content, i + 1)

parse_braced_variable(s, start_idx) ==
    LET inner_start == start_idx + 2
        end_idx == FindCloseBrace(s, inner_start, 1)
    IN  IF end_idx < 0 THEN ScanErr(UnclosedBrace(start_idx))
        ELSE LET content == Slice(s, inner_start, end_idx)
                 modifier == FindModifier(content, 0)
             IN  IF modifier.found
                 THEN ScanToken(Variable(Slice(content, 0, modifier.name_len),
                                         Some(From(content, modifier.start)),
                                         modifier.strict, modifier.conditional),
                                start_idx, end_idx + 1)
                 ELSE ScanToken(Variable(content, None, FALSE, FALSE),
                                start_idx, end_idx + 1)

\* A parse_variable whose lone $ leaves the cursor where it was.
parse_variable_no_advance(s, start_idx) ==
    IF start_idx + 1 < Len(s) /\ At(s, start_idx + 1) = "{"
    THEN parse_braced_variable(s, start_idx)
    ELSE IF start_idx + 1 < Len(s) /\ At(s, start_idx + 1) = "("
    THEN parse_command_substitution(s, start_idx)
    ELSE IF start_idx + 1 < Len(s)
            /\ (IsAlphabetic(At(s, start_idx + 1)) \/ At(s, start_idx + 1) = "_")
    THEN parse_simple_variable(s, start_idx)
    ELSE ScanToken(Literal(Slice(s, start_idx, start_idx + 1)), start_idx, start_idx)

parse_variable(s, start_idx) ==
    IF start_idx + 1 < Len(s) /\ At(s, start_idx + 1) = "{"
    THEN parse_braced_variable(s, start_idx)
    ELSE IF start_idx + 1 < Len(s) /\ At(s, start_idx + 1) = "("
    THEN parse_command_substitution(s, start_idx)
    ELSE IF start_idx + 1 < Len(s)
            /\ (IsAlphabetic(At(s, start_idx + 1)) \/ At(s, start_idx + 1) = "_")
    THEN parse_simple_variable(s, start_idx)
    ELSE ScanToken(Literal(Slice(s, start_idx, start_idx + 1)), start_idx, start_idx + 1)

\* scan_next's while loop, from the token's start with the cursor at current.
RECURSIVE ScanLoop(_, _, _)
ScanLoop(s, start, current) ==
    IF current >= Len(s)
    THEN IF Slice(s, start, current) = <<>> THEN ScanNone(current)
         ELSE ScanToken(Literal(Slice(s, start, current)), start, current)
    ELSE LET abs_p == FindSpecial(s, current) IN
         IF abs_p >= Len(s) THEN ScanLoop(s, start, Len(s))
         ELSE IF At(s, abs_p) = BS
         THEN ScanLoop(s, start, IF abs_p + 1 < Len(s) THEN abs_p + 2 ELSE Len(s))
         ELSE IF At(s, abs_p) = SQ
         THEN ScanLoop(s, start, SkipSingleQuote(s, abs_p + 1))
         ELSE IF abs_p > start
         THEN ScanToken(Literal(Slice(s, start, abs_p)), start, abs_p)
         ELSE IF At(s, abs_p) = DOLLAR THEN parse_variable(s, abs_p)
         ELSE parse_backtick_command(s, abs_p)

scan_next(s, idx) ==
    IF idx >= Len(s) THEN ScanNone(idx) ELSE ScanLoop(s, idx, idx)

-----------------------------------------------------------------------------
(* The provider (src/src/context.rs) *)

\* SimpleContext::get_value: the binding of key, if any.
get_value(ctx, key) == IF key \in DOMAIN ctx THEN Some(ctx[key]) ELSE None

\* An overlay in which the base provider's binding comes first.
OverlayProvider_base_first(base, overlay) ==
    [key \in DOMAIN overlay \cup DOMAIN base |->
        IF key \in DOMAIN base THEN base[key] ELSE overlay[key]]

\* OverlayProvider { base, overlay } (src/src/interpolator.rs), as the
\* bindings its get_value gives: overlay.get(key), or else the base's.
OverlayProvider(base, overlay) ==
    [key \in DOMAIN overlay \cup DOMAIN base |->
        IF key \in DOMAIN overlay THEN overlay[key] ELSE base[key]]

-----------------------------------------------------------------------------
(* Escapes and placeholders (src/src/interpolator.rs) *)

ESCAPED_BACKTICK_PLACEHOLDER == NUL
ESCAPED_DOLLAR_PLACEHOLDER == SOH

\* An unescaping that pushes the escaped $ and backtick themselves.
UnescapeChar_without_placeholders(c) ==
    CASE c = "n" -> NL
      [] c = "r" -> CR
      [] c = "t" -> TAB
      [] OTHER -> c

\* The character unescape_into pushes for a backslash followed by c.
UnescapeChar(c) ==
    CASE c = "n" -> NL
      [] c = "r" -> CR
      [] c = "t" -> TAB
      [] c = BS -> BS
      [] c = DQ -> DQ
      [] c = SQ -> SQ
      [] c = BT -> ESCAPED_BACKTICK_PLACEHOLDER
      [] c = DOLLAR -> ESCAPED_DOLLAR_PLACEHOLDER
      [] OTHER -> c

\* unescape_into(buf, s): buf with s unescaped appended.
RECURSIVE unescape_into(_, _)
unescape_into(b, s) ==
    IF s = <<>> THEN b
    ELSE IF Head(s) = BS
    THEN IF Len(s) = 1 THEN Append(b, BS)
         ELSE unescape_into(Append(b, UnescapeChar(s[2])), SubSeq(s, 3, Len(s)))
    ELSE unescape_into(Append(b, Head(s)), Tail(s))

restore_escaped_chars(s) ==
    [i \in 1..Len(s) |->
        IF s[i] = ESCAPED_BACKTICK_PLACEHOLDER THEN BT
        ELSE IF s[i] = ESCAPED_DOLLAR_PLACEHOLDER THEN DOLLAR
        ELSE s[i]]

HasPlaceholder(s) ==
    Contains(s, ESCAPED_BACKTICK_PLACEHOLDER) \/ Contains(s, ESCAPED_DOLLAR_PLACEHOLDER)

-----------------------------------------------------------------------------
(* The synchronous pass (src/src/interpolator.rs) *)

\* A Result<Cow<str>, Error>, with the names the call looked up in the
\* provider: owned is TRUE for Cow::Owned and FALSE for Cow::Borrowed.
Ok(val, owned, looked) == [ok |-> TRUE, val |-> val, owned |-> owned, looked |-> looked]
Err(err, looked) == [ok |-> FALSE, err |-> err, looked |-> looked]

\* The Literal arm of resolve, and its tail: s appended to the buffer,
\* unescaped when the escapes feature is on and s holds a backslash.
PushLiteral(res, s) ==
    IF config.features.escapes /\ Contains(s, BS)
    THEN unescape_into(res, s)
    ELSE res \o s

RECURSIVE resolve(_, _, _), ResolveLoop(_, _, _, _, _, _, _),
          ResolveToken(_, _, _, _, _, _, _), resolve_variable(_, _, _, _, _, _)

\* A variant of resolve_variable whose :+ does not test the value for
\* emptiness.
resolve_variable_no_empty_test(ctx, name, default, strict, conditional, depth) ==
    LET val_opt == get_value(ctx, name)
        features == config.features
        Sub(r) == IF r.ok THEN Ok(r.val, r.owned, r.looked \cup {name})
                  ELSE Err(r.err, r.looked \cup {name})
        Empty == Ok(<<>>, FALSE, {name})
    IN  IF conditional /\ features.conditionals
        THEN IF val_opt.some /\ default.some
             THEN Sub(resolve(ctx, default.v, depth + 1))
             ELSE Empty
        ELSE IF val_opt.some
        THEN IF ~conditional /\ strict /\ val_opt.v = <<>>
                /\ features.defaults /\ default.some
             THEN Sub(resolve(ctx, default.v, depth + 1))
             ELSE Sub(resolve(ctx, val_opt.v, depth + 1))
        ELSE IF ~conditional /\ default.some
                /\ ((strict /\ features.defaults) \/ (~strict /\ features.alternates))
             THEN Sub(resolve(ctx, default.v, depth + 1))
             ELSE Err(MissingVar(name), {name})

\* A variant of resolve_variable that resolves the default text before it
\* knows whether the default is needed.
resolve_variable_eager(ctx, name, default, strict, conditional, depth) ==
    LET val_opt == get_value(ctx, name)
        features == config.features
        governed == IF conditional THEN features.conditionals
                    ELSE IF strict THEN features.defaults ELSE features.alternates
        def == IF default.some /\ governed THEN resolve(ctx, default.v, depth + 1)
               ELSE Ok(<<>>, FALSE, {})
        Sub(r) == IF r.ok THEN Ok(r.val, r.owned, r.looked \cup def.looked \cup {name})
                  ELSE Err(r.err, r.looked \cup def.looked \cup {name})
        Empty == Ok(<<>>, FALSE, def.looked \cup {name})
    IN  IF ~def.ok THEN Sub(def)
        ELSE IF conditional /\ features.conditionals
        THEN IF val_opt.some /\ ~(strict /\ val_opt.v = <<>>) /\ default.some
             THEN Sub(def)
             ELSE Empty
        ELSE IF val_opt.some
        THEN IF ~conditional /\ strict /\ val_opt.v = <<>>
                /\ features.defaults /\ default.some
             THEN Sub(def)
             ELSE Sub(resolve(ctx, val_opt.v, depth + 1))
        ELSE IF ~conditional /\ default.some
                /\ ((strict /\ features.defaults) \/ (~strict /\ features.alternates))
             THEN Sub(def)
             ELSE Err(MissingVar(name), {name})

\* A variant of resolve_variable in which the `defaults` toggle governs the
\* bare - modifier as well as :-.
resolve_variable_one_toggle(ctx, name, default, strict, conditional, depth) ==
    LET val_opt == get_value(ctx, name)
        features == config.features
        Sub(r) == IF r.ok THEN Ok(r.val, r.owned, r.looked \cup {name})
                  ELSE Err(r.err, r.looked \cup {name})
        Empty == Ok(<<>>, FALSE, {name})
    IN  IF conditional /\ features.conditionals
        THEN IF val_opt.some /\ ~(strict /\ val_opt.v = <<>>) /\ default.some
             THEN Sub(resolve(ctx, default.v, depth + 1))
             ELSE Empty
        ELSE IF val_opt.some
        THEN IF ~conditional /\ strict /\ val_opt.v = <<>>
                /\ features.defaults /\ default.some
             THEN Sub(resolve(ctx, default.v, depth + 1))
             ELSE Sub(resolve(ctx, val_opt.v, depth + 1))
        ELSE IF ~conditional /\ default.some /\ features.defaults
             THEN Sub(resolve(ctx, default.v, depth + 1))
             ELSE Err(MissingVar(name), {name})

\* A variant of resolve_variable that gives the empty text for a name
\* without a value and without a default.
resolve_variable_missing_is_empty(ctx, name, default, strict, conditional, depth) ==
    LET val_opt == get_value(ctx, name)
        features == config.features
        Sub(r) == IF r.ok THEN Ok(r.val, r.owned, r.looked \cup {name})
                  ELSE Err(r.err, r.looked \cup {name})
        Empty == Ok(<<>>, FALSE, {name})
    IN  IF conditional /\ features.conditionals
        THEN IF val_opt.some
             THEN IF strict /\ val_opt.v = <<>> THEN Empty
                  ELSE IF default.some
                  THEN Sub(resolve(ctx, default.v, depth + 1))
                  ELSE Empty
             ELSE Empty
        ELSE IF val_opt.some
        THEN IF ~conditional /\ strict /\ val_opt.v = <<>>
                /\ features.defaults /\ default.some
             THEN Sub(resolve(ctx, default.v, depth + 1))
             ELSE Sub(resolve(ctx, val_opt.v, depth + 1))
        ELSE IF ~conditional /\ strict /\ features.defaults /\ default.some
             THEN Sub(resolve(ctx, default.v, depth + 1))
             ELSE IF ~conditional /\ ~strict /\ features.alternates /\ default.some
             THEN Sub(resolve(ctx, default.v, depth + 1))
             ELSE Empty

\* resolve_variable(name, default, strict, conditional, depth)
resolve_variable(ctx, name, default, strict, conditional, depth) ==
    LET val_opt == get_value(ctx, name)
        features == config.features
        use_default == default.some /\ strict /\ ~conditional /\ features.defaults
        use_alternate == default.some /\ ~strict /\ ~conditional /\ features.alternates
        use_conditional == default.some /\ conditional /\ features.conditionals
        effective_default ==
            IF use_default \/ use_alternate \/ use_conditional THEN default ELSE None
        Sub(r) == IF r.ok THEN Ok(r.val, r.owned, r.looked \cup {name})
                  ELSE Err(r.err, r.looked \cup {name})
        Empty == Ok(<<>>, FALSE, {name})
    IN  IF conditional /\ features.conditionals
        THEN IF val_opt.some
             THEN IF strict /\ val_opt.v = <<>> THEN Empty
                  ELSE IF effective_default.some
                  THEN Sub(resolve(ctx, effective_default.v, depth + 1))
                  ELSE Empty
             ELSE Empty
        ELSE IF val_opt.some
        THEN IF ~conditional /\ strict /\ val_opt.v = <<>>
                /\ features.defaults /\ default.some
             THEN Sub(resolve(ctx, default.v, depth + 1))
             ELSE Sub(resolve(ctx, val_opt.v, depth + 1))
        ELSE IF ~conditional /\ strict /\ features.defaults /\ default.some
             THEN Sub(resolve(ctx, default.v, depth + 1))
             ELSE IF ~conditional /\ ~strict /\ features.alternates /\ default.some
             THEN Sub(resolve(ctx, default.v, depth + 1))
             ELSE Err(MissingVar(name), {name})

\* resolve's while loop, with the scanner's cursor at idx: res is the
\* Option<String> `result`.
ResolveLoop(ctx, inp, depth, idx, res, last_pos, looked) ==
    ResolveToken(ctx, inp, depth, scan_next(inp, idx), res, last_pos, looked)

\* One turn of resolve's while loop on what scan_next returned, sc, and the
\* code after the loop when sc is the end of the text.
ResolveToken(ctx, inp, depth, sc, res, last_pos, looked) ==
    IF sc.kind = "error" THEN Err(sc.err, looked)
    ELSE IF sc.kind = "none"
    THEN IF res.some
         THEN Ok(IF last_pos < Len(inp) THEN PushLiteral(res.v, From(inp, last_pos))
                 ELSE res.v, TRUE, looked)
         ELSE IF config.features.escapes /\ Contains(inp, BS)
         THEN Ok(unescape_into(<<>>, inp), TRUE, looked)
         ELSE Ok(inp, FALSE, looked)
    ELSE LET token == sc.token
             \* the first `if result.is_none()` block
             res1 == IF ~res.some /\ token.type = "Variable"
                     THEN Some(Slice(inp, 0, sc.start)) ELSE res
         IN  IF res1.some
             THEN IF token.type = "Literal"
                  THEN ResolveLoop(ctx, inp, depth, sc.end,
                                   Some(PushLiteral(res1.v, token.text)), sc.end, looked)
                  ELSE IF token.type = "Variable"
                  THEN IF config.features.variables
                       THEN LET val == resolve_variable(ctx, token.name, token.default,
                                           token.strict, token.conditional, depth)
                            IN  IF val.ok
                                THEN ResolveLoop(ctx, inp, depth, sc.end,
                                                 Some(res1.v \o val.val), sc.end,
                                                 looked \cup val.looked)
                                ELSE Err(val.err, looked \cup val.looked)
                       ELSE ResolveLoop(ctx, inp, depth, sc.end,
                                        Some(res1.v \o Slice(inp, sc.start, sc.end)),
                                        sc.end, looked)
                  ELSE ResolveLoop(ctx, inp, depth, sc.end,
                                   Some(res1.v \o Slice(inp, sc.start, sc.end)),
                                   sc.end, looked)
             ELSE IF token.type = "Literal" /\ config.features.escapes
                     /\ Contains(token.text, BS)
                  THEN ResolveLoop(ctx, inp, depth, sc.end,
                                   Some(unescape_into(Slice(inp, 0, sc.start), token.text)),
                                   sc.end, looked)
                  ELSE ResolveLoop(ctx, inp, depth, sc.end, res1, sc.end, looked)

\* A variant of resolve that gives the text back unexpanded once the depth
\* is exceeded.
resolve_gives_up(ctx, inp, depth) ==
    IF depth > config.max_depth THEN Ok(inp, FALSE, {})
    ELSE ResolveLoop(ctx, inp, depth, 0, None, 0, {})

\* A variant of resolve whose depth test is off by one.
resolve_off_by_one(ctx, inp, depth) ==
    IF depth >= config.max_depth THEN Err(RecursiveLookup(inp), {})
    ELSE ResolveLoop(ctx, inp, depth, 0, None, 0, {})

\* resolve(input, depth)
resolve(ctx, inp, depth) ==
    IF depth > config.max_depth THEN Err(RecursiveLookup(inp), {})
    ELSE ResolveLoop(ctx, inp, depth, 0, None, 0, {})

\* maybe_restore_placeholders(input)
maybe_restore_placeholders(r) ==
    IF HasPlaceholder(r.val) THEN Ok(restore_escaped_chars(r.val), TRUE, r.looked)
    ELSE r

\* The `?` on resolve's result followed by maybe_restore_placeholders.
RestoreIfOk(r) == IF r.ok THEN maybe_restore_placeholders(r) ELSE r

\* Interpolator::interpolate(input) over the provider ctx
interpolate(ctx, inp) == RestoreIfOk(resolve(ctx, inp, 0))

\* Interpolator::interpolate_with(input, extra_vars) over the provider ctx
interpolate_with(ctx, inp, extra) ==
    RestoreIfOk(resolve(OverlayProvider(ctx, extra), inp, 0))

-----------------------------------------------------------------------------
(* The command pass of interpolate_async (src/src/interpolator.rs) *)

\* str::trim_end: s without its trailing whitespace.
RECURSIVE trim_end(_)
trim_end(s) ==
    IF s # <<>> /\ IsWhitespace(s[Len(s)]) THEN trim_end(SubSeq(s, 1, Len(s) - 1))
    ELSE s

\* resolve_commands runs until it awaits a command or returns.
Await(cmd_str, fr) == [state |-> "await", cmd_str |-> cmd_str, frame |-> fr]
Return(r) == [state |-> "return", result |-> r]

\* The locals of resolve_commands: `result` is buf, `range` is the range of
\* the token whose command is running.
Frame(src, idx, b, last_pos, mod, start, end, first, looked) ==
    [source |-> src, byte_idx |-> idx, buf |-> b, last_pos |-> last_pos,
     modified |-> mod, range_start |-> start, range_end |-> end,
     input |-> first, looked |-> looked]

\* resolve_commands' while loop from the scanner's cursor fr.byte_idx, and the
\* code after the loop.
RECURSIVE CommandLoop(_, _), CommandToken(_, _, _)
CommandLoop(ctx, fr) == CommandToken(ctx, fr, scan_next(fr.source, fr.byte_idx))

\* The Command arms after `self.resolve(cmd, 0)` gave resolved_cmd: its `?`,
\* restore_escaped_chars and the await of execute_command.
CommandResolved(fr, sc, resolved_cmd) ==
    IF ~resolved_cmd.ok
    THEN Return(Err(resolved_cmd.err, fr.looked \cup resolved_cmd.looked))
    ELSE Await(restore_escaped_chars(resolved_cmd.val),
               [fr EXCEPT !.byte_idx = sc.end,
                          !.range_start = sc.start, !.range_end = sc.end,
                          !.looked = fr.looked \cup resolved_cmd.looked])

\* One turn of resolve_commands' while loop on what scan_next returned, sc,
\* and the code after the loop when sc is the end of the text.
CommandToken(ctx, fr, sc) ==
    IF sc.kind = "error" THEN Return(Err(sc.err, fr.looked))
    ELSE IF sc.kind = "none"
    THEN IF fr.modified
         THEN Return(Ok(restore_escaped_chars(
                          IF fr.last_pos < Len(fr.source)
                          THEN fr.buf \o From(fr.source, fr.last_pos) ELSE fr.buf),
                        TRUE, fr.looked))
         ELSE IF HasPlaceholder(fr.source)
         THEN Return(Ok(restore_escaped_chars(fr.source), TRUE, fr.looked))
         ELSE Return(Ok(fr.input.val, fr.input.owned, fr.looked))
    ELSE LET token == sc.token
             enabled == \/ token.type = "Command" /\ config.features.commands
                        \/ token.type = "BacktickCommand"
                           /\ config.features.backtick_commands
         IN  IF enabled
             THEN CommandResolved(fr, sc, resolve(ctx, token.text, 0))
             ELSE CommandLoop(ctx,
                    [fr EXCEPT !.byte_idx = sc.end,
                               !.buf = fr.buf \o Slice(fr.source, sc.start, sc.end),
                               !.last_pos = sc.end])

\* resolve_commands(input) up to its first await
resolve_commands(ctx, r) ==
    LET src == r.val
        has_commands == ContainsPair(src, DOLLAR, "(") \/ Contains(src, BT)
        has_placeholders == HasPlaceholder(src)
    IN  IF ~has_commands /\ ~has_placeholders THEN Return(r)
        ELSE IF ~has_commands /\ has_placeholders
        THEN Return(Ok(restore_escaped_chars(src), TRUE, r.looked))
        ELSE CommandLoop(ctx, Frame(src, 0, <<>>, 0, FALSE, 0, 0, r, r.looked))

\* A second pass that returns the first pass's result as it is when both
\* command features are disabled.
SecondPass_without_restore(ctx, resolved_vars) ==
    IF ~resolved_vars.ok THEN Return(resolved_vars)
    ELSE IF config.features.commands \/ config.features.backtick_commands
    THEN resolve_commands(ctx, resolved_vars)
    ELSE Return(resolved_vars)

\* interpolate_async after its first pass gave resolved_vars: the `?` and
\* the second pass.
SecondPass(ctx, resolved_vars) ==
    IF ~resolved_vars.ok THEN Return(resolved_vars)
    ELSE IF config.features.commands \/ config.features.backtick_commands
    THEN resolve_commands(ctx, resolved_vars)
    ELSE Return(maybe_restore_placeholders(resolved_vars))

\* interpolate_async(input) up to its first await
interpolate_async(ctx, inp) == SecondPass(ctx, resolve(ctx, inp, 0))

\* What the awaited execute_command gives for each way the process can end.
SpawnFailed == [kind |-> "spawn_failed"]
ExitNonZero(stderr) == [kind |-> "exit_nonzero", stderr |-> stderr]
ExitZero(stdout) == [kind |-> "exit_zero", stdout |-> stdout]

\* A resumption that takes a failed command for one that printed nothing.
resume_commands_ignores_failure(ctx, fr, outcome) ==
    CommandLoop(ctx,
       [fr EXCEPT !.buf = fr.buf \o Slice(fr.source, fr.last_pos, fr.range_start)
                                \o (IF outcome.kind = "exit_zero"
                                    THEN trim_end(outcome.stdout) ELSE <<>>),
                  !.modified = TRUE,
                  !.last_pos = fr.range_end])

\* A resumption that puts the command's output into the text being scanned,
\* so that the scanner meets it.
resume_commands_rescans_output(ctx, fr, outcome) ==
    IF outcome.kind = "spawn_failed" THEN Return(Err(IoError("spawn"), fr.looked))
    ELSE IF outcome.kind = "exit_nonzero"
    THEN Return(Err(CommandError(outcome.stderr), fr.looked))
    ELSE CommandLoop(ctx,
           [fr EXCEPT !.source = Slice(fr.source, 0, fr.range_start)
                                    \o trim_end(outcome.stdout)
                                    \o From(fr.source, fr.range_end),
                      !.byte_idx = fr.range_start,
                      !.buf = fr.buf \o Slice(fr.source, fr.last_pos, fr.range_start),
                      !.modified = TRUE,
                      !.last_pos = fr.range_start])

\* A resumption that puts the command's output in front of the text built
\* so far.
resume_commands_prepends(ctx, fr, outcome) ==
    IF outcome.kind = "spawn_failed" THEN Return(Err(IoError("spawn"), fr.looked))
    ELSE IF outcome.kind = "exit_nonzero"
    THEN Return(Err(CommandError(outcome.stderr), fr.looked))
    ELSE CommandLoop(ctx,
           [fr EXCEPT !.buf = trim_end(outcome.stdout) \o fr.buf
                                    \o Slice(fr.source, fr.last_pos, fr.range_start),
                      !.modified = TRUE,
                      !.last_pos = fr.range_end])

\* resolve_commands resumed with the outcome of the awaited command, up to
\* its next await or its return.
resume_commands(ctx, fr, outcome) ==
    IF outcome.kind = "spawn_failed" THEN Return(Err(IoError("spawn"), fr.looked))
    ELSE IF outcome.kind = "exit_nonzero"
    THEN Return(Err(CommandError(outcome.stderr), fr.looked))
    ELSE CommandLoop(ctx,
           [fr EXCEPT !.buf = fr.buf \o Slice(fr.source, fr.last_pos, fr.range_start)
                                    \o trim_end(outcome.stdout),
                      !.modified = TRUE,
                      !.last_pos = fr.range_end])

-----------------------------------------------------------------------------
(* The reference extractor (src/src/lib.rs) *)

\* The byte value of a character: the order of String's Ord.
Byte(c) ==
    CASE c = NUL -> 0 [] c = SOH -> 1 [] c = TAB -> 9 [] c = NL -> 10
      [] c = CR -> 13 [] c = SP -> 32 [] c = DQ -> 34 [] c = DOLLAR -> 36
      [] c = SQ -> 39 [] c = "(" -> 40 [] c = ")" -> 41 [] c = "+" -> 43
      [] c = "-" -> 45 [] c = "0" -> 48 [] c = "1" -> 49 [] c = ":" -> 58
      [] c = "A" -> 65 [] c = "B" -> 66 [] c = "C" -> 67 [] c = "M" -> 77
      [] c = "S" -> 83 [] c = "U" -> 85 [] c = BS -> 92 [] c = "_" -> 95
      [] c = BT -> 96 [] c = "a" -> 97 [] c = "c" -> 99 [] c = "d" -> 100
      [] c = "e" -> 101 [] c = "n" -> 110 [] c = "r" -> 114 [] c = "t" -> 116
      [] c = "v" -> 118 [] c = "x" -> 120 [] c = "{" -> 123 [] c = "}" -> 125

\* a <= b in the lexicographic order of the bytes
RECURSIVE StrLeq(_, _)
StrLeq(a, b) ==
    IF a = <<>> THEN TRUE
    ELSE IF b = <<>> THEN FALSE
    ELSE IF Byte(Head(a)) < Byte(Head(b)) THEN TRUE
    ELSE IF Byte(Head(a)) > Byte(Head(b)) THEN FALSE
    ELSE StrLeq(Tail(a), Tail(b))

\* result.sort() over the collected set
RECURSIVE SortNames(_)
SortNames(names) ==
    IF names = {} THEN <<>>
    ELSE LET least == CHOOSE x \in names : \A y \in names : StrLeq(x, y)
         IN  <<least>> \o SortNames(names \ {least})

\* A collector that also descends into the default text of a variable.
RECURSIVE CollectVariables_with_defaults(_, _, _)
CollectVariables_with_defaults(inp, idx, variables) ==
    LET sc == scan_next(inp, idx) IN
    IF sc.kind # "token" THEN variables
    ELSE CollectVariables_with_defaults(inp, sc.end,
            IF sc.token.type = "Variable"
            THEN variables \cup {sc.token.name}
                    \cup (IF sc.token.default.some
                          THEN CollectVariables_with_defaults(sc.token.default.v, 0, {})
                          ELSE {})
            ELSE variables)

\* A loop that steps over the character at which the scanner fails and
\* goes on.
RECURSIVE CollectVariables_past_errors(_, _, _)
CollectVariables_past_errors(inp, idx, variables) ==
    LET sc == scan_next(inp, idx) IN
    IF sc.kind = "none" THEN variables
    ELSE IF sc.kind = "error" THEN CollectVariables_past_errors(inp, idx + 1, variables)
    ELSE CollectVariables_past_errors(inp, sc.end,
            IF sc.token.type = "Variable" THEN variables \cup {sc.token.name}
            ELSE variables)

\* The `while let Ok(Some(..))` loop: it ends at the end of the text or at
\* the scanner's first error.
RECURSIVE CollectVariables(_, _, _)
CollectVariables(inp, idx, variables) ==
    LET sc == scan_next(inp, idx) IN
    IF sc.kind # "token" THEN variables
    ELSE CollectVariables(inp, sc.end,
            IF sc.token.type = "Variable" THEN variables \cup {sc.token.name}
            ELSE variables)

find_variable_references(inp) == SortNames(CollectVariables(inp, 0, {}))

-----------------------------------------------------------------------------
(* The operations *)

NoResult == [ok |-> FALSE, err |-> [kind |-> "none"], looked |-> {}]
NoFrame == [source |-> <<>>]

\* The outputs a command may print, and its standard-error text.
\* An output that reads as a command and a reference: $(e)$A.
SyntaxStdout == <<DOLLAR, "(", "e", ")", DOLLAR, "A">>
CmdStdouts == {<<"o">>, <<"o", NL>>, <<"o", SP, NL>>, <<>>, SyntaxStdout}
CmdOutcomes == {SpawnFailed, ExitNonZero(<<"e">>)} \cup {ExitZero(o) : o \in CmdStdouts}

\* The state after the async call ran to its next await or to its return.
AsyncStep(step) ==
    IF step.state = "await"
    THEN /\ pc' = "await"
         /\ running' = step.cmd_str
         /\ executed' = Append(executed, step.cmd_str)
         /\ frame' = step.frame
         /\ UNCHANGED result
    ELSE /\ pc' = "done"
         /\ running' = <<>>
         /\ frame' = NoFrame
         /\ result' = step.result
         /\ UNCHANGED executed

\* Germi::interpolate(input)
Interpolate ==
    /\ pc = "idle"
    /\ op' = "interpolate"
    /\ result' = interpolate(context, input)
    /\ pc' = "done"
    /\ UNCHANGED <<context, config, input, extra_vars, refs, frame, running,
                   executed, exits, byte_idx, scans>>

\* The extra bindings a caller hands to interpolate_with: A unbound, empty
\* or p, and S unbound or a reference to B.
ExtraVars ==
    {a @@ b : a \in {<<>>, (<<"A">> :> <<>>), (<<"A">> :> <<"p">>)},
              b \in {<<>>, (<<"S">> :> <<DOLLAR, "{", "B", "}">>)}}

\* Germi::interpolate_with(input, extra_vars)
InterpolateWith ==
    /\ pc = "idle"
    /\ \E extra \in ExtraVars :
          /\ extra_vars' = extra
          /\ result' = interpolate_with(context, input, extra)
    /\ op' = "interpolate_with"
    /\ pc' = "done"
    /\ UNCHANGED <<context, config, input, refs, frame, running, executed, exits,
                   byte_idx, scans>>

\* The caller has the result of interpolate or interpolate_with and calls
\* the same Germi again.
NextCall ==
    /\ pc = "done"
    /\ op \in {"interpolate", "interpolate_with"}
    /\ pc' = "idle"
    /\ op' = "none"
    /\ result' = [ok |-> FALSE, err |-> [kind |-> "none"], looked |-> {}]
    /\ UNCHANGED <<context, config, input, extra_vars, refs, frame, running,
                   executed, exits, byte_idx, scans>>

\* find_variable_references(input)
FindVariableReferences ==
    /\ pc = "idle"
    /\ op' = "find_variable_references"
    /\ refs' = find_variable_references(input)
    /\ pc' = "done"
    /\ UNCHANGED <<context, config, input, extra_vars, result, frame, running,
                   executed, exits, byte_idx, scans>>

\* Germi::interpolate_async(input), up to its first await
InterpolateAsync ==
    /\ pc = "idle"
    /\ op' = "interpolate_async"
    /\ AsyncStep(interpolate_async(context, input))
    /\ UNCHANGED <<context, config, input, extra_vars, refs, exits, byte_idx, scans>>

\* The running command ends and interpolate_async resumes.
CommandCompletes ==
    /\ pc = "await"
    /\ \E outcome \in CmdOutcomes :
          /\ AsyncStep(resume_commands(context, frame, outcome))
          /\ exits' = Append(exits, outcome)
    /\ UNCHANGED <<context, config, input, extra_vars, op, refs, byte_idx, scans>>

\* The calls a caller makes after the scanner reached the end of the text.
MaxEndCalls == 2

\* Scanner::scan_next on a Scanner::new(input): the call returns a token with
\* its range, nothing, or an error, and leaves the cursor in byte_idx (where
\* it was, on an error).
ScanNext ==
    /\ pc = "idle"
    /\ Len(scans) < Len(input) + MaxEndCalls
    /\ op' = "scan_next"
    /\ scans' = Append(scans, scan_next(input, byte_idx))
    /\ byte_idx' = IF scan_next(input, byte_idx).kind = "error" THEN byte_idx
                   ELSE scan_next(input, byte_idx).end
    /\ UNCHANGED <<context, config, input, extra_vars, pc, result, refs, frame,
                   running, executed, exits>>

Idle ==
    /\ extra_vars = <<>>
    /\ pc = "idle"
    /\ op = "none"
    /\ result = NoResult
    /\ refs = <<>>
    /\ frame = NoFrame
    /\ running = <<>>
    /\ executed = <<>>
    /\ exits = <<>>
    /\ byte_idx = 0
    /\ scans = <<>>

-----------------------------------------------------------------------------
(* Texts and configurations the specifications draw from *)

Simple(name) == <<DOLLAR>> \o name
Braced(name) == <<DOLLAR, "{">> \o name \o <<"}">>
Modified(name, modifier, default) ==
    <<DOLLAR, "{">> \o name \o modifier \o default \o <<"}">>
DollarParen(cmd) == <<DOLLAR, "(">> \o cmd \o <<")">>
Backticked(cmd) == <<BT>> \o cmd \o <<BT>>
Quoted(body) == <<SQ>> \o body \o <<SQ>>

ColonDash == <<":", "-">>
Dash      == <<"-">>
ColonPlus == <<":", "+">>
Plus      == <<"+">>
Modifiers == {ColonDash, Dash, ColonPlus, Plus}

\* Config::default() and FeatureConfig::default()
DefaultMaxDepth == 10
DefaultFeatures ==
    [variables |-> TRUE, defaults |-> TRUE, alternates |-> TRUE,
     conditionals |-> TRUE, escapes |-> TRUE, commands |-> TRUE,
     backtick_commands |-> TRUE]
DefaultConfig == [max_depth |-> DefaultMaxDepth, features |-> DefaultFeatures]

\* The provider's bindings over names, each name unbound or bound to one of
\* values: a HashMap<String, String>.
Unbound == "unbound"
Bindings(choice) ==
    LET bound == {n \in DOMAIN choice : choice[n] # <<Unbound>>}
    IN  [n \in bound |-> choice[n]]

\* What the caller sees of a Result: the value or the error.
Outcome(r) == IF r.ok THEN [ok |-> TRUE, val |-> r.val] ELSE [ok |-> FALSE, err |-> r.err]
Value(v) == [ok |-> TRUE, val |-> v]
Failure(e) == [ok |-> FALSE, err |-> e]

-----------------------------------------------------------------------------
(* The modifier matrix: ${N<modifier>D} over the states of N *)

NameA == <<"A">>
NameB == <<"B">>
NameC == <<"C">>
NameM == <<"M">>      \* never bound

MatrixDefaults ==
    {<<>>, <<"d">>, <<BS, "n">>, Braced(NameB), Braced(NameM),
     Modified(NameB, ColonDash, Braced(NameC))}

MatrixInputs ==
    {Modified(NameA, m, D) : m \in Modifiers, D \in MatrixDefaults}
        \cup {Braced(NameA)}

MatrixContexts ==
    {Bindings((NameA :> a) @@ (NameB :> b) @@ (NameC :> c)) :
        a \in {<<Unbound>>, <<>>, <<"v">>, Braced(NameC)},
        b \in {<<Unbound>>, <<>>, <<"w">>},
        c \in {<<Unbound>>, <<"c">>}}

MatrixConfigs ==
    {[max_depth |-> DefaultMaxDepth,
      features |-> [DefaultFeatures EXCEPT !.defaults = d, !.alternates = a,
                                           !.conditionals = c]] :
        d \in BOOLEAN, a \in BOOLEAN, c \in BOOLEAN}

InitMatrix ==
    /\ context \in MatrixContexts
    /\ config \in MatrixConfigs
    /\ input \in MatrixInputs
    /\ Idle

NextMatrix == Interpolate

SpecMatrix == InitMatrix /\ [][NextMatrix]_vars

IsUnset(ctx, n) == n \notin DOMAIN ctx
IsEmpty(ctx, n) == n \in DOMAIN ctx /\ ctx[n] = <<>>
IsNonEmpty(ctx, n) == n \in DOMAIN ctx /\ ctx[n] # <<>>

AllFeatures == config.features = DefaultFeatures
Interpolated == pc = "done" /\ op = "interpolate"

\* What the matrix of parameter expansion prescribes for ${N<m>D}: D or the
\* plain reference ${N}, each interpolated on its own, or the empty string.
MatrixExpected(ctx, N, m, D) ==
    LET resolvedD == Outcome(interpolate(ctx, D))
        resolvedN == Outcome(interpolate(ctx, Braced(N)))
    IN  CASE m = ColonDash ->
               IF IsUnset(ctx, N) \/ IsEmpty(ctx, N) THEN resolvedD ELSE resolvedN
          [] m = Dash ->
               IF IsUnset(ctx, N) THEN resolvedD
               ELSE IF IsEmpty(ctx, N) THEN Value(<<>>) ELSE resolvedN
          [] m = ColonPlus ->
               IF IsNonEmpty(ctx, N) THEN resolvedD ELSE Value(<<>>)
          [] m = Plus ->
               IF ~IsUnset(ctx, N) THEN resolvedD ELSE Value(<<>>)

\* C1: with all features enabled, interpolate of ${N:-D}, ${N-D}, ${N:+D} and
\* ${N+D} gives, for N unset, empty and non-empty, what the modifier matrix
\* prescribes: the interpolated D, the interpolated value of N, or the empty
\* string; nested defaults give the innermost applicable value.
C1_ModifierMatrix ==
    Interpolated /\ AllFeatures =>
        \A m \in Modifiers, D \in MatrixDefaults :
            input = Modified(NameA, m, D) =>
                Outcome(result) = MatrixExpected(context, NameA, m, D)

\* ${A:-${B:-${C}}} with A and B unset and C set gives the value of C.
C1_Witness ==
    /\ Interpolated /\ AllFeatures
    /\ input = Modified(NameA, ColonDash, Modified(NameB, ColonDash, Braced(NameC)))
    /\ IsUnset(context, NameA) /\ IsUnset(context, NameB)
    /\ IsNonEmpty(context, NameC)
    /\ Outcome(result) = Value(context[NameC])

\* Whether the matrix substitutes the default text of ${N<m>D}.
BranchTaken(ctx, N, m) ==
    CASE m = ColonDash -> IsUnset(ctx, N) \/ IsEmpty(ctx, N)
      [] m = Dash -> IsUnset(ctx, N)
      [] m = ColonPlus -> IsNonEmpty(ctx, N)
      [] m = Plus -> ~IsUnset(ctx, N)

Governing(m) ==
    CASE m = ColonDash -> config.features.defaults
      [] m = Dash -> config.features.alternates
      [] m = ColonPlus -> config.features.conditionals
      [] m = Plus -> config.features.conditionals

\* C8: with the governing feature disabled, ${N<m>D} behaves as the plain
\* ${N}: MissingVar when N is unset, the resolved value when set (the empty
\* string when empty); with it enabled the modifier works whatever the other
\* two toggles are.
C8_DisabledModifier ==
    Interpolated =>
        \A m \in Modifiers, D \in MatrixDefaults :
            input = Modified(NameA, m, D) =>
                IF Governing(m)
                THEN Outcome(result) = MatrixExpected(context, NameA, m, D)
                ELSE /\ Outcome(result) = Outcome(interpolate(context, Braced(NameA)))
                     /\ IsUnset(context, NameA) =>
                           Outcome(result) = Failure(MissingVar(NameA))
                     /\ IsEmpty(context, NameA) => Outcome(result) = Value(<<>>)
                     /\ result.looked \cap {NameB, NameM} = {}

\* ${A:-d} with defaults disabled and A unset failed with MissingVar(A), the
\* other two toggles being on.
C8_Witness ==
    /\ Interpolated
    /\ ~config.features.defaults
    /\ config.features.alternates /\ config.features.conditionals
    /\ input = Modified(NameA, ColonDash, <<"d">>)
    /\ IsUnset(context, NameA)
    /\ Outcome(result) = Failure(MissingVar(NameA))

-----------------------------------------------------------------------------
(* Chains and cycles of references, and nested defaults, against max_depth *)

MaxDepthBound == 3      \* max_depth ranges over 0..MaxDepthBound and the default
MaxNest == 4            \* nested modifiers around a literal

ChainNames == {NameA, NameB, NameC}

\* Every name is bound to a literal or to a plain reference ${X} to a name.
ChainContexts ==
    [ChainNames -> {<<"v">>} \cup {Braced(n) : n \in ChainNames}]

\* k modifiers nested around the literal x: ${M:-...} on the unbound M and
\* ${A:+...} on the bound A in turn, each substituting its text.
RECURSIVE Nest(_)
Nest(k) ==
    IF k = 0 THEN <<"x">>
    ELSE IF k % 2 = 1 THEN Modified(NameM, ColonDash, Nest(k - 1))
    ELSE Modified(NameA, ColonPlus, Nest(k - 1))

DepthInputs ==
    {Braced(n) : n \in ChainNames} \cup {Simple(n) : n \in ChainNames}
        \cup {Nest(k) : k \in 1..MaxNest}

DepthConfigs ==
    {[max_depth |-> d, features |-> DefaultFeatures] :
        d \in (0..MaxDepthBound) \cup {DefaultMaxDepth}}

InitDepth ==
    /\ context \in ChainContexts
    /\ config \in DepthConfigs
    /\ input \in DepthInputs
    /\ Idle

NextDepth == Interpolate

SpecDepth == InitDepth /\ [][NextDepth]_vars

\* The name a value refers to, when the value is a plain reference.
IsPlainRef(v) == \E n \in ChainNames : v = Braced(n)
RefTarget(v) == CHOOSE n \in ChainNames : v = Braced(n)

\* The number of variables on the chain of plain references from n to a
\* literal, or 0 when the chain runs into a cycle.
RECURSIVE ChainLength(_, _, _)
ChainLength(ctx, n, fuel) ==
    IF fuel = 0 THEN 0
    ELSE IF ~IsPlainRef(ctx[n]) THEN 1
    ELSE LET rest == ChainLength(ctx, RefTarget(ctx[n]), fuel - 1)
         IN  IF rest = 0 THEN 0 ELSE rest + 1

ChainLen(ctx, n) == ChainLength(ctx, n, Cardinality(ChainNames) + 1)

\* The value of the d-th variable on the chain from n.
RECURSIVE ChainValue(_, _, _)
ChainValue(ctx, n, d) ==
    IF d <= 1 THEN ctx[n] ELSE ChainValue(ctx, RefTarget(ctx[n]), d - 1)

C7_DepthBound ==
    Interpolated =>
        /\ \A n \in ChainNames :
              LET k == ChainLen(context, n) IN
              input \in {Braced(n), Simple(n)} /\ k > 0 =>
                 IF k <= config.max_depth
                 THEN Outcome(result) = Value(<<"v">>)
                 ELSE Outcome(result) = Failure(RecursiveLookup(
                          ChainValue(context, n, config.max_depth + 1)))
        /\ \A k \in 1..MaxNest :
              input = Nest(k) =>
                 IF k <= config.max_depth
                 THEN Outcome(result) = Value(<<"x">>)
                 ELSE Outcome(result) = Failure(RecursiveLookup(
                          Nest(k - config.max_depth - 1)))

\* A chain of three variables failed at max_depth 2, carrying the value of
\* the third.
C7_Witness ==
    /\ Interpolated
    /\ config.max_depth = 2
    /\ input = Braced(NameA)
    /\ ChainLen(context, NameA) = 3
    /\ Outcome(result) = Failure(RecursiveLookup(<<"v">>))

\* A chain of three variables resolved at max_depth 3.
C7_WitnessOk ==
    /\ Interpolated
    /\ config.max_depth = 3
    /\ input = Braced(NameA)
    /\ ChainLen(context, NameA) = 3
    /\ Outcome(result) = Value(<<"v">>)

-----------------------------------------------------------------------------
(* Texts without a special character *)

MaxPlainLen == 3

\* Characters other than $, backslash, the single quote and the backtick.
PlainChars == {"a", SP, NL, "{", NUL, SOH}

RECURSIVE TextsUpTo(_, _)
TextsUpTo(chars, n) ==
    IF n = 0 THEN {<<>>}
    ELSE LET shorter == TextsUpTo(chars, n - 1)
         IN  shorter \cup {Append(t, c) : t \in shorter, c \in chars}

PlainContexts == {Bindings((NameA :> a)) : a \in {<<Unbound>>, <<"v">>}}

PlainConfigs ==
    {[max_depth |-> d,
      features |-> [DefaultFeatures EXCEPT !.variables = v, !.escapes = e]] :
        d \in {0, DefaultMaxDepth}, v \in BOOLEAN, e \in BOOLEAN}

InitPlain ==
    /\ context \in PlainContexts
    /\ config \in PlainConfigs
    /\ input \in TextsUpTo(PlainChars, MaxPlainLen)
    /\ Idle

NextPlain == Interpolate

SpecPlain == InitPlain /\ [][NextPlain]_vars

IsPlain(t) == \A i \in 1..Len(t) : t[i] \notin {DOLLAR, BS, SQ, BT}

\* C2: interpolate returns a text without $, backslash, single quote and
\* backtick as it is, whatever other characters it holds, for every provider
\* and configuration.
C2_IdentityLaw ==
    Interpolated /\ IsPlain(input) => Outcome(result) = Value(input)

\* The part of C2 that holds: a plain text that holds neither of the two
\* placeholder characters comes back as it is, borrowed.
C2_IdentityWithoutPlaceholders ==
    Interpolated /\ IsPlain(input) /\ ~HasPlaceholder(input) =>
        Outcome(result) = Value(input) /\ ~result.owned

\* A plain text with a control character other than the placeholders came
\* back unchanged.
C2_Witness ==
    /\ Interpolated
    /\ input = <<"a", NL, "{">>
    /\ Outcome(result) = Value(input)

-----------------------------------------------------------------------------
(* Single-quoted spans *)

MaxQuoteLen == 2

QuoteChars == {DOLLAR, "A", "n", BS, SQ}

\* A text in which no single quote is unescaped and no backslash is last:
\* between two quotes it is the inside of one single-quoted span.
RECURSIVE IsQuoteBody(_)
IsQuoteBody(t) ==
    IF t = <<>> THEN TRUE
    ELSE IF Head(t) = BS THEN Len(t) >= 2 /\ IsQuoteBody(SubSeq(t, 3, Len(t)))
    ELSE Head(t) # SQ /\ IsQuoteBody(Tail(t))

QuoteBodies ==
    {t \in TextsUpTo(QuoteChars, MaxQuoteLen) : IsQuoteBody(t)}
        \cup {Braced(NameA), Modified(NameA, ColonDash, <<"d">>),
              DollarParen(<<"c">>), Backticked(<<"c">>), <<"a", BS, SQ, "b">>}

QuotePrefixes == {<<>>, <<"x">>, Braced(NameA)}
QuoteSuffixes == {<<>>, <<"x">>, Simple(NameA)}

QuoteInputs ==
    {pre \o Quoted(body) \o post :
        pre \in QuotePrefixes, body \in QuoteBodies, post \in QuoteSuffixes}

QuoteContexts == {Bindings((NameA :> a)) : a \in {<<>>, <<"v">>}}

QuoteConfigs ==
    {[DefaultConfig EXCEPT !.features.escapes = e] : e \in BOOLEAN}

InitQuote ==
    /\ context \in QuoteContexts
    /\ config \in QuoteConfigs
    /\ input \in QuoteInputs
    /\ Idle

NextQuote == Interpolate

SpecQuote == InitQuote /\ [][NextQuote]_vars

\* part occurs in whole as a run of consecutive characters
Occurs(part, whole) ==
    \E i \in 0..(Len(whole) - Len(part)) : Slice(whole, i, i + Len(part)) = part

\* C5: under the default configuration every single-quoted span of the input,
\* quotes included, is in the output of interpolate unchanged, whatever it
\* holds: $, ${...}, backticks or backslash escapes.
C5_SingleQuotedInert ==
    Interpolated /\ config = DefaultConfig =>
        \A pre \in QuotePrefixes, body \in QuoteBodies, post \in QuoteSuffixes :
            input = pre \o Quoted(body) \o post =>
                /\ result.ok
                /\ Occurs(Quoted(body), result.val)
                /\ result.val = interpolate(context, pre).val \o Quoted(body)
                                    \o interpolate(context, post).val

\* The part of C5 that holds: a single-quoted span without a backslash is in
\* the output unchanged, and so is every span when escapes are disabled.
C5_QuotedWithoutBackslash ==
    Interpolated =>
        \A pre \in QuotePrefixes, body \in QuoteBodies, post \in QuoteSuffixes :
            /\ input = pre \o Quoted(body) \o post
            /\ ~(config.features.escapes /\ Contains(body, BS))
            => /\ result.ok
               /\ result.val = interpolate(context, pre).val \o Quoted(body)
                                   \o interpolate(context, post).val

\* '${A}' between a resolved ${A} and a resolved $A came out unchanged.
C5_Witness ==
    /\ Interpolated /\ config = DefaultConfig
    /\ context = Bindings((NameA :> <<"v">>))
    /\ input = Braced(NameA) \o Quoted(Braced(NameA)) \o Simple(NameA)
    /\ Outcome(result) = Value(<<"v">> \o Quoted(Braced(NameA)) \o <<"v">>)

-----------------------------------------------------------------------------
(* Texts made of references, commands, quoted spans and escapes *)

MaxSegments == 3

NameAB == <<"A", "B">>
NameLower == <<"a">>

\* The pieces a text is made of, each with the names of its top-level
\* variables.  No piece starts with a name character, so a text has one
\* reading as a sequence of pieces.
Segment(text, names) == [text |-> text, names |-> names]
Segments ==
    { Segment(Simple(NameA), {NameA}),
      Segment(Simple(NameAB), {NameAB}),
      Segment(Simple(NameLower), {NameLower}),
      Segment(Braced(NameB), {NameB}),
      Segment(Modified(NameA, ColonDash, Braced(NameC)), {NameA}),
      Segment(Modified(NameB, ColonPlus, Simple(NameC)), {NameB}),
      Segment(DollarParen(<<"e", SP>> \o Simple(NameC)), {}),
      Segment(Backticked(Simple(NameC)), {}),
      Segment(Quoted(Simple(NameC)), {}),
      Segment(<<BS>> \o Simple(NameC), {}),
      Segment(<<SP>>, {}) }

RECURSIVE SegmentSeqs(_)
SegmentSeqs(n) ==
    IF n = 0 THEN {<<>>}
    ELSE LET shorter == SegmentSeqs(n - 1)
         IN  shorter \cup {Append(q, g) : q \in shorter, g \in Segments}

RECURSIVE SegmentsText(_)
SegmentsText(q) == IF q = <<>> THEN <<>> ELSE Head(q).text \o SegmentsText(Tail(q))

RefsInputs == {SegmentsText(q) : q \in SegmentSeqs(MaxSegments)}

InitRefs ==
    /\ context = Bindings((NameA :> <<Unbound>>))
    /\ config = DefaultConfig
    /\ input \in RefsInputs
    /\ Idle

NextRefs == FindVariableReferences

SpecRefs == InitRefs /\ [][NextRefs]_vars

Extracted == pc = "done" /\ op = "find_variable_references"

IsPrefix(p, t) == Len(p) <= Len(t) /\ SubSeq(t, 1, Len(p)) = p

\* The pieces that start t; the longest is the piece t starts with ($AB is
\* the name AB, not $A followed by B).
StartingSegments(t) == {g \in Segments : IsPrefix(g.text, t)}
FirstSegment(t) ==
    CHOOSE g \in StartingSegments(t) :
        \A h \in StartingSegments(t) : Len(h.text) <= Len(g.text)

\* The names of the top-level variables of a text made of pieces.
RECURSIVE TopLevelNames(_)
TopLevelNames(t) ==
    IF t = <<>> THEN {}
    ELSE LET g == FirstSegment(t)
         IN  g.names \cup TopLevelNames(SubSeq(t, Len(g.text) + 1, Len(t)))

\* a < b in the lexicographic order of the bytes
Before(a, b) == a # b /\ StrLeq(a, b)

-----------------------------------------------------------------------------
(* The variables feature disabled *)

\* The default texts of the references: a literal, a reference, an escape,
\* the empty text and the two control characters the interpolator reserves.
VarsOffDefaults ==
    {<<"d">>, Braced(NameB), <<BS, "n">>, <<>>, <<NUL>>, <<SOH>>}

VarsOffTokens ==
    {Simple(NameA), Braced(NameA)}
        \cup {Modified(NameA, m, d) : m \in Modifiers, d \in VarsOffDefaults}

VarsOffAround == {<<>>, <<"x">>}

VarsOffInputs ==
    {pre \o t \o post :
        pre \in VarsOffAround, t \in VarsOffTokens, post \in VarsOffAround}

VarsOffContexts == {Bindings((NameA :> a)) : a \in {<<Unbound>>, <<"v">>}}

VarsOffConfigs ==
    {[max_depth |-> d,
      features |-> [DefaultFeatures EXCEPT !.variables = FALSE,
                                           !.defaults = f, !.escapes = e]] :
        d \in {0, DefaultMaxDepth}, f \in BOOLEAN, e \in BOOLEAN}

InitVarsOff ==
    /\ context \in VarsOffContexts
    /\ config \in VarsOffConfigs
    /\ input \in VarsOffInputs
    /\ Idle

NextVarsOff == Interpolate

SpecVarsOff == InitVarsOff /\ [][NextVarsOff]_vars

\* C9: with the variables feature disabled every Variable token, $NAME and
\* ${...} with any modifier and default, is emitted as its source text
\* unchanged, the provider is never consulted, and the call does not fail
\* (so not with MissingVar or RecursiveLookup).
C9_VariablesDisabled ==
    Interpolated /\ ~config.features.variables =>
        /\ result.ok
        /\ result.val = input
        /\ result.looked = {}

\* The part of C9 that holds: no lookup and no failure for any token, and
\* the source text unchanged for a token without a reserved character.
C9_DisabledWithoutPlaceholders ==
    Interpolated /\ ~config.features.variables =>
        /\ result.ok
        /\ result.looked = {}
        /\ ~HasPlaceholder(input) => result.val = input

\* ${A:-${B}} with A and B unbound and max_depth 0 came out as it went in.
C9_Witness ==
    /\ Interpolated /\ ~config.features.variables
    /\ config.max_depth = 0
    /\ context = Bindings((NameA :> <<Unbound>>))
    /\ input = Modified(NameA, ColonDash, Braced(NameB))
    /\ Outcome(result) = Value(input) /\ result.looked = {}

-----------------------------------------------------------------------------
(* The two command features *)

MaxTokens == 2

\* Command texts: plain ones, one with a reference, one with an escape
\* sequence and one with a reserved control character.
ToggleCmds == {<<"c">>, <<"e">>, Simple(NameA), <<"a", BS, "n">>, <<"a", NUL>>}

CommandSpan(kind, cmd) == [kind |-> kind, cmd |-> cmd]
CommandSpans == {CommandSpan(k, c) : k \in {"Command", "BacktickCommand"}, c \in ToggleCmds}

RECURSIVE SpanSeqs(_)
SpanSeqs(n) ==
    IF n = 1 THEN {<<t>> : t \in CommandSpans}
    ELSE LET shorter == SpanSeqs(n - 1)
         IN  shorter \cup {Append(q, t) : q \in shorter, t \in CommandSpans}

SpanText(t) == IF t.kind = "Command" THEN DollarParen(t.cmd) ELSE Backticked(t.cmd)

\* The texts of the parts with an x between them.
RECURSIVE JoinX(_)
JoinX(parts) ==
    IF Len(parts) = 0 THEN <<>>
    ELSE IF Len(parts) = 1 THEN parts[1]
    ELSE parts[1] \o <<"x">> \o JoinX(Tail(parts))

SpansText(q) == JoinX([i \in 1..Len(q) |-> SpanText(q[i])])

ToggleInputs == {SpansText(q) : q \in SpanSeqs(MaxTokens)}

ToggleContexts == {Bindings((NameA :> <<"v">>))}

ToggleConfigs ==
    {[DefaultConfig EXCEPT !.features.commands = c,
                           !.features.backtick_commands = b,
                           !.features.escapes = e] :
        c \in BOOLEAN, b \in BOOLEAN, e \in BOOLEAN}

InitToggles ==
    /\ context \in ToggleContexts
    /\ config \in ToggleConfigs
    /\ input \in ToggleInputs
    /\ Idle

NextToggles == InterpolateAsync \/ CommandCompletes

SpecToggles == InitToggles /\ [][NextToggles]_vars

AsyncDone == pc = "done" /\ op = "interpolate_async"

SpanEnabled(t) ==
    IF t.kind = "Command" THEN config.features.commands
    ELSE config.features.backtick_commands

\* The string handed to the shell for a command text: the text with its
\* references resolved.
ShellString(cmd) == IF cmd = Simple(NameA) THEN context[NameA] ELSE cmd

\* The shell strings of the enabled spans, left to right.
RECURSIVE EnabledCommands(_)
EnabledCommands(q) ==
    IF q = <<>> THEN <<>>
    ELSE (IF SpanEnabled(Head(q)) THEN <<ShellString(Head(q).cmd)>> ELSE <<>>)
            \o EnabledCommands(Tail(q))

\* What a command's output can be once spliced.
SplicedOutputs == {<<>>, <<"o">>, SyntaxStdout}

\* Every span is in its place: a disabled one as its source text, an enabled
\* one as a command output; only the enabled ones were executed, in order.
TogglesRespected(q) ==
    /\ IsPrefix(executed, EnabledCommands(q))
    /\ AsyncDone /\ result.ok =>
          /\ executed = EnabledCommands(q)
          /\ \E outs \in [1..Len(q) -> SplicedOutputs] :
                result.val = JoinX([i \in 1..Len(q) |->
                                IF SpanEnabled(q[i]) THEN outs[i]
                                ELSE SpanText(q[i])])
    /\ AsyncDone /\ ~result.ok =>
          /\ executed # <<>>
          /\ result.err.kind \in {"CommandError", "IoError"}

\* C10: in interpolate_async a $(...) token is emitted as its source text
\* unchanged and is not executed when the commands feature is disabled, and
\* so is a backtick span when backtick_commands is disabled; disabling one
\* feature leaves the spans of the other kind executed.
C10_DisabledCommandKinds ==
    \A q \in SpanSeqs(MaxTokens) : input = SpansText(q) => TogglesRespected(q)

\* The part of C10 that holds: the same for command texts that contain no
\* backslash and no reserved control character.
C10_TogglesWithoutEscapes ==
    \A q \in SpanSeqs(MaxTokens) :
        /\ input = SpansText(q)
        /\ ~Contains(input, BS) /\ ~HasPlaceholder(input)
        => TogglesRespected(q)

\* $(c) stayed and the backtick span e ran, with commands disabled.
C10_Witness ==
    /\ AsyncDone
    /\ ~config.features.commands /\ config.features.backtick_commands
    /\ input = DollarParen(<<"c">>) \o <<"x">> \o Backticked(<<"e">>)
    /\ executed = << <<"e">> >>
    /\ Outcome(result) = Value(DollarParen(<<"c">>) \o <<"x", "o">>)

-----------------------------------------------------------------------------
(* Literal text and the escapes feature *)

MaxEscapeLen == 3

EscapeChars == {BS, "n", "r", "t", DQ, SQ, "x", DOLLAR, BT, NUL}

\* A text without a variable or a command: every $ and every backtick comes
\* right after a backslash that escapes it.
RECURSIVE IsLiteralText(_)
IsLiteralText(t) ==
    IF t = <<>> THEN TRUE
    ELSE IF Head(t) = BS
    THEN IF Len(t) = 1 THEN TRUE ELSE IsLiteralText(SubSeq(t, 3, Len(t)))
    ELSE Head(t) \notin {DOLLAR, BT} /\ IsLiteralText(Tail(t))

EscapeInputs == {t \in TextsUpTo(EscapeChars, MaxEscapeLen) : IsLiteralText(t)}

EscapeContexts == {Bindings((NameA :> <<"v">>))}

EscapeConfigs ==
    {[DefaultConfig EXCEPT !.features.escapes = e, !.features.variables = v] :
        e \in BOOLEAN, v \in BOOLEAN}

InitEscape ==
    /\ context \in EscapeContexts
    /\ config \in EscapeConfigs
    /\ input \in EscapeInputs
    /\ Idle

NextEscape == Interpolate \/ InterpolateAsync

SpecEscape == InitEscape /\ [][NextEscape]_vars

\* The escape table: what a backslash followed by c stands for.
EscapedCharacter(c) ==
    IF c = "n" THEN NL
    ELSE IF c = "r" THEN CR
    ELSE IF c = "t" THEN TAB
    ELSE c

\* A text with each backslash pair replaced by what it stands for, and a
\* backslash that ends the text kept.
RECURSIVE Unescaped(_)
Unescaped(t) ==
    IF t = <<>> THEN <<>>
    ELSE IF Head(t) # BS THEN <<Head(t)>> \o Unescaped(Tail(t))
    ELSE IF Len(t) = 1 THEN <<BS>>
    ELSE <<EscapedCharacter(t[2])>> \o Unescaped(SubSeq(t, 3, Len(t)))

\* C11: literal text is unescaped exactly when the escapes feature is
\* enabled: \n, \r, \t give newline, carriage return, tab; a backslash before
\* any other character gives that character; a backslash that ends the text
\* stays.  With escapes disabled the text is copied to the output unchanged.
C11_LiteralUnescaped ==
    (Interpolated \/ AsyncDone) =>
        /\ result.ok
        /\ result.val = IF config.features.escapes THEN Unescaped(input) ELSE input

\* The part of C11 that holds: the same for texts without the two reserved
\* control characters.
C11_UnescapedWithoutPlaceholders ==
    (Interpolated \/ AsyncDone) /\ ~HasPlaceholder(input) =>
        /\ result.ok
        /\ result.val = IF config.features.escapes THEN Unescaped(input) ELSE input

\* \n followed by a backslash came out as a newline and the backslash.
C11_Witness ==
    /\ Interpolated /\ config.features.escapes
    /\ input = <<BS, "n", BS>>
    /\ Outcome(result) = Value(<<NL, BS>>)

-----------------------------------------------------------------------------
(* Escaped dollars and backticks *)

NameU == <<"U">>

\* A $ or backtick behind a backslash with what follows it, and the same
\* text with the backslashes removed.
EscapedPiece(text, bare) == [text |-> text, bare |-> bare]
EscapedPieces ==
    { EscapedPiece(<<BS>> \o Simple(NameA), Simple(NameA)),
      EscapedPiece(<<BS>> \o Braced(NameA), Braced(NameA)),
      EscapedPiece(<<BS>> \o Braced(NameU), Braced(NameU)),
      EscapedPiece(<<BS>> \o DollarParen(<<"c">>), DollarParen(<<"c">>)),
      EscapedPiece(<<BS, BT, "c", BS, BT>>, Backticked(<<"c">>)) }

\* What stands before and after: nothing, plain text, a reference to B, a
\* real command of either kind.
Neighbour(text, kind) == [text |-> text, kind |-> kind]
EscapedBefore ==
    { Neighbour(<<>>, "text"), Neighbour(<<"x">>, "text"),
      Neighbour(Braced(NameB), "variable"),
      Neighbour(DollarParen(<<"e">>), "command") }
EscapedAfter ==
    { Neighbour(<<>>, "text"), Neighbour(<<"x">>, "text"),
      Neighbour(Backticked(<<"e">>), "backtick") }

EscapedInputs ==
    {pre.text \o p.text \o post.text :
        pre \in EscapedBefore, p \in EscapedPieces, post \in EscapedAfter}

EscapedContexts ==
    {Bindings((NameA :> <<"v">>) @@ (NameB :> <<"w">>) @@ (NameU :> <<Unbound>>))}

EscapedConfigs ==
    {[DefaultConfig EXCEPT !.features.escapes = e, !.features.commands = c,
                           !.features.backtick_commands = b] :
        e \in BOOLEAN, c \in BOOLEAN, b \in BOOLEAN}

InitEscaped ==
    /\ context \in EscapedContexts
    /\ config \in EscapedConfigs
    /\ input \in EscapedInputs
    /\ Idle

NextEscaped == Interpolate \/ InterpolateAsync \/ CommandCompletes

SpecEscaped == InitEscaped /\ [][NextEscaped]_vars

\* What a neighbour can come out as.
NeighbourOutputs(n) ==
    IF n.kind = "text" THEN {n.text}
    ELSE IF n.kind = "variable" THEN {<<"w">>}
    ELSE IF op = "interpolate_async"
            /\ (IF n.kind = "command" THEN config.features.commands
                ELSE config.features.backtick_commands)
    THEN SplicedOutputs
    ELSE {n.text}

\* C12: a $ or backtick right after an unescaped backslash starts no
\* variable and no command: the names behind it are not looked up, the
\* command behind it is not executed, and with escapes enabled interpolate
\* and interpolate_async output the bare $ or backtick followed by the rest
\* of the text, also next to a real command.
C12_EscapedDollarAndBacktick ==
    \A pre \in EscapedBefore, p \in EscapedPieces, post \in EscapedAfter :
        input = pre.text \o p.text \o post.text =>
            /\ \A i \in 1..Len(executed) : executed[i] = <<"e">>
            /\ (Interpolated \/ AsyncDone) /\ result.ok =>
                  /\ result.looked \subseteq {NameB}
                  /\ \E o1 \in NeighbourOutputs(pre), o2 \in NeighbourOutputs(post) :
                        result.val =
                            o1 \o (IF config.features.escapes THEN p.bare ELSE p.text)
                               \o o2
            /\ (Interpolated \/ AsyncDone) /\ ~result.ok =>
                  /\ op = "interpolate_async"
                  /\ result.err.kind \in {"CommandError", "IoError"}

\* $(e)\$(c) followed by a backtick span e: both real commands ran and $(c)
\* is in the output, not run.
C12_Witness ==
    /\ AsyncDone /\ config = DefaultConfig
    /\ input = DollarParen(<<"e">>) \o <<BS>> \o DollarParen(<<"c">>)
                   \o Backticked(<<"e">>)
    /\ executed = << <<"e">>, <<"e">> >>
    /\ Outcome(result) = Value(<<"o">> \o DollarParen(<<"c">>) \o <<"o">>)

-----------------------------------------------------------------------------
(* References to names without a value *)

NameE == <<"E">>

\* A text, the name whose lookup fails in it, the depth at which that
\* reference is evaluated, and the setting under which it is evaluated and
\* has no default to fall back on.
MissingCase(text, name, depth, when) ==
    [text |-> text, name |-> name, depth |-> depth, when |-> when]
MissingCases ==
    { MissingCase(Simple(NameU), NameU, 0, "always"),
      MissingCase(Braced(NameU), NameU, 0, "always"),
      MissingCase(Simple(NameU) \o <<SP>> \o Simple(NameM), NameU, 0, "always"),
      MissingCase(Modified(NameU, ColonDash, <<"d">>), NameU, 0, "defaults off"),
      MissingCase(Modified(NameU, Dash, <<"d">>), NameU, 0, "alternates off"),
      MissingCase(Modified(NameU, ColonPlus, <<"d">>), NameU, 0, "conditionals off"),
      MissingCase(Modified(NameU, Plus, <<"d">>), NameU, 0, "conditionals off"),
      MissingCase(Braced(NameA), NameU, 1, "always"),
      MissingCase(Simple(NameA), NameU, 1, "always"),
      MissingCase(Modified(NameM, ColonDash, Braced(NameU)), NameU, 1, "defaults on"),
      MissingCase(Modified(NameM, ColonDash, Braced(NameU)), NameM, 0, "defaults off"),
      MissingCase(Modified(NameM, Dash, Simple(NameA)), NameU, 2, "alternates on"),
      MissingCase(Modified(NameE, ColonDash, Simple(NameU)), NameU, 1, "defaults on"),
      MissingCase(Modified(NameB, ColonPlus, Simple(NameU)), NameU, 1, "conditionals on"),
      MissingCase(Modified(NameB, Plus, Braced(NameU)), NameU, 1, "conditionals on") }

\* Texts whose reference to U is in a branch that is not taken.
UnevaluatedTexts ==
    { Modified(NameB, ColonDash, Braced(NameU)),
      Modified(NameB, Dash, Simple(NameU)),
      Modified(NameM, ColonPlus, Simple(NameU)) }

MissingBefore == {<<>>, <<"x">>, Braced(NameB)}
MissingAfter == {<<>>, <<SP, "x">>}

MissingInputs ==
    {pre \o t \o post :
        pre \in MissingBefore,
        t \in {c.text : c \in MissingCases} \cup UnevaluatedTexts,
        post \in MissingAfter}

\* A holds a reference to U, B a plain value, E the empty text; U and M
\* have no value.
MissingContexts ==
    {Bindings((NameA :> Braced(NameU)) @@ (NameB :> <<"w">>) @@ (NameE :> <<>>)
                @@ (NameU :> <<Unbound>>) @@ (NameM :> <<Unbound>>))}

MissingConfigs ==
    {[max_depth |-> d,
      features |-> [DefaultFeatures EXCEPT !.defaults = f, !.alternates = a,
                                           !.conditionals = c]] :
        d \in {0, 1, DefaultMaxDepth}, f \in BOOLEAN, a \in BOOLEAN, c \in BOOLEAN}

InitMissing ==
    /\ context \in MissingContexts
    /\ config \in MissingConfigs
    /\ input \in MissingInputs
    /\ Idle

NextMissing == Interpolate

SpecMissing == InitMissing /\ [][NextMissing]_vars

Applies(when) ==
    CASE when = "always" -> TRUE
      [] when = "defaults on" -> config.features.defaults
      [] when = "defaults off" -> ~config.features.defaults
      [] when = "alternates on" -> config.features.alternates
      [] when = "alternates off" -> ~config.features.alternates
      [] when = "conditionals on" -> config.features.conditionals
      [] when = "conditionals off" -> ~config.features.conditionals

\* C13: a reference to a name without a value and without an applicable
\* enabled default, at the top level, inside a resolved value or inside a
\* default text whose branch is taken, makes interpolate fail with
\* MissingVar carrying that name; there is no output.  A position is
\* evaluated when its depth and the depth of the value resolved before it
\* are within max_depth.
C13_MissingVariable ==
    \A c \in MissingCases, pre \in MissingBefore, post \in MissingAfter :
        /\ Interpolated
        /\ input = pre \o c.text \o post
        /\ Applies(c.when)
        /\ c.depth <= config.max_depth
        /\ (pre = Braced(NameB) => 1 <= config.max_depth)
        => Outcome(result) = Failure(MissingVar(c.name))

\* ${B}${E:-$U}: B resolved, E is empty, the default is taken, U is missing.
C13_Witness ==
    /\ Interpolated /\ config = DefaultConfig
    /\ input = Braced(NameB) \o Modified(NameE, ColonDash, Simple(NameU))
    /\ Outcome(result) = Failure(MissingVar(NameU))

-----------------------------------------------------------------------------
(* Several commands in one text *)

MaxCommands == 3

\* The text of the i-th command of a text: i times the letter c.
RECURSIVE SeqCmd(_)
SeqCmd(i) == IF i = 0 THEN <<>> ELSE Append(SeqCmd(i - 1), "c")

CommandKinds == {"Command", "BacktickCommand"}

\* The kinds of the commands of a text, left to right.
RECURSIVE KindSeqs(_)
KindSeqs(n) ==
    IF n = 1 THEN {<<k>> : k \in CommandKinds}
    ELSE LET shorter == KindSeqs(n - 1)
         IN  shorter \cup {Append(q, k) : q \in shorter, k \in CommandKinds}

SequenceSpans(kinds) == [i \in 1..Len(kinds) |-> CommandSpan(kinds[i], SeqCmd(i))]

SequenceInputs == {SpansText(SequenceSpans(kinds)) : kinds \in KindSeqs(MaxCommands)}

SequenceContexts == {Bindings((NameA :> <<"v">>))}

InitSequence ==
    /\ context \in SequenceContexts
    /\ config = DefaultConfig
    /\ input \in SequenceInputs
    /\ Idle

NextSequence == InterpolateAsync \/ CommandCompletes

SpecSequence == InitSequence /\ [][NextSequence]_vars

\* The number of commands of the text.
CommandCount ==
    CHOOSE n \in 1..MaxCommands :
        \E kinds \in KindSeqs(MaxCommands) :
            Len(kinds) = n /\ input = SpansText(SequenceSpans(kinds))

FailedExit(i) == exits[i].kind # "exit_zero"

\* C14: when an executed command exits with a non-zero status the call
\* returns CommandError with the command's standard-error text, and when it
\* cannot be spawned the call returns IoError; there is no output, no
\* command later in the text is executed and the failed one is not executed
\* again.
C14_CommandFailure ==
    \A i \in 1..Len(exits) :
        FailedExit(i) =>
            /\ i = Len(exits)
            /\ AsyncDone /\ running = <<>>
            /\ ~ENABLED NextSequence
            /\ executed = [j \in 1..i |-> SeqCmd(j)]
            /\ ~result.ok
            /\ exits[i].kind = "exit_nonzero" =>
                  Outcome(result) = Failure(CommandError(exits[i].stderr))
            /\ exits[i].kind = "spawn_failed" => result.err.kind = "IoError"

\* The second of three commands exited with a non-zero status.
C14_Witness ==
    /\ AsyncDone
    /\ CommandCount = 3
    /\ Len(exits) = 2 /\ exits[2] = ExitNonZero(<<"e">>)
    /\ executed = <<SeqCmd(1), SeqCmd(2)>>
    /\ Outcome(result) = Failure(CommandError(<<"e">>))

\* What can stand in the result for a command that printed stdout: the
\* output without some or all of its trailing white space.
Splicings(stdout) ==
    {SubSeq(stdout, 1, n) : n \in {m \in 0..Len(stdout) :
        \A k \in (m + 1)..Len(stdout) : stdout[k] \in {NL, SP}}}

\* C15: within one interpolate_async call the commands are executed one at
\* a time, left to right: a command is started only when every command to
\* its left has completed, at most one is running, and the outputs are in
\* the result in the order of the tokens.
C15_SequentialCommands ==
    /\ executed = [j \in 1..Len(executed) |-> SeqCmd(j)]
    /\ Len(exits) <= Len(executed) /\ Len(executed) <= Len(exits) + 1
    /\ pc = "await" <=> Len(executed) = Len(exits) + 1
    /\ pc = "await" => running = executed[Len(executed)]
    /\ pc # "await" => running = <<>>
    /\ AsyncDone /\ result.ok =>
          /\ Len(exits) = CommandCount
          /\ \E outs \in [1..CommandCount -> UNION {Splicings(o) : o \in CmdStdouts}] :
                /\ \A j \in 1..CommandCount : outs[j] \in Splicings(exits[j].stdout)
                /\ result.val = JoinX(outs)

\* Three commands printed o, nothing and o: the result is oxxo.
C15_Witness ==
    /\ AsyncDone
    /\ CommandCount = 3
    /\ exits = <<ExitZero(<<"o", NL>>), ExitZero(<<>>), ExitZero(<<"o">>)>>
    /\ executed = <<SeqCmd(1), SeqCmd(2), SeqCmd(3)>>
    /\ Outcome(result) = Value(<<"o", "x", "x", "o">>)

\* A command's standard output without its trailing newline characters.
RECURSIVE WithoutTrailingNewlines(_)
WithoutTrailingNewlines(s) ==
    IF s # <<>> /\ s[Len(s)] = NL THEN WithoutTrailingNewlines(SubSeq(s, 1, Len(s) - 1))
    ELSE s

\* The result of a call whose commands all succeeded, when each command is
\* replaced by strip applied to its standard output.
SplicedWith(strip(_)) ==
    AsyncDone /\ result.ok =>
        result.val = JoinX([j \in 1..Len(exits) |-> strip(exits[j].stdout)])

\* C18: the text spliced in place of an executed command is the command's
\* standard output with its trailing newline characters removed and every
\* other character, trailing spaces and tabs before the final newline
\* included, unchanged.
C18_OnlyTrailingNewlinesRemoved == SplicedWith(WithoutTrailingNewlines)

\* What the code does: every trailing whitespace character is removed.
C18_TrailingWhitespaceRemoved == SplicedWith(trim_end)

\* A command printed o, a space and a newline, and the call returned.
C18_Witness ==
    /\ AsyncDone /\ result.ok
    /\ CommandCount = 1
    /\ exits = <<ExitZero(<<"o", SP, NL>>)>>

-----------------------------------------------------------------------------
(* Extra bindings for one call *)

NameS == <<"S">>

\* The base bindings: A and B unbound or bound to a plain text, C bound to a
\* reference to A.
OverlayContexts ==
    {Bindings((NameA :> a) @@ (NameB :> b) @@ (NameC :> Braced(NameA))) :
        a \in {<<Unbound>>, <<"v">>}, b \in {<<Unbound>>, <<"w">>}}

OverlayInputs ==
    { Braced(NameA), Simple(NameB), Braced(NameC), Braced(NameS),
      Braced(NameA) \o <<"x">> \o Simple(NameB),
      Modified(NameA, ColonDash, Braced(NameB)) }

InitOverlay ==
    /\ context \in OverlayContexts
    /\ config = DefaultConfig
    /\ input \in OverlayInputs
    /\ Idle

NextOverlay == InterpolateWith \/ NextCall \/ Interpolate

SpecOverlay == InitOverlay /\ [][NextOverlay]_vars

\* The binding a lookup of n is to give: the extra one when the call has
\* extra bindings and n is among them, the base one otherwise.
Binding(n, with) ==
    IF with /\ n \in DOMAIN extra_vars THEN Some(extra_vars[n])
    ELSE IF n \in DOMAIN context THEN Some(context[n])
    ELSE None

\* What ${n} is to give for the plain names A and B.
PlainReference(n, with) ==
    IF Binding(n, with).some THEN Value(Binding(n, with).v)
    ELSE Failure(MissingVar(n))

\* What the call is to return for each of the texts.
OverlayExpected(with) ==
    LET a == PlainReference(NameA, with)
        b == PlainReference(NameB, with)
    IN  CASE input = Braced(NameA) -> a
          [] input = Simple(NameB) -> b
          [] input = Braced(NameC) -> a
          [] input = Braced(NameS) ->
                IF Binding(NameS, with).some THEN b ELSE Failure(MissingVar(NameS))
          [] input = Braced(NameA) \o <<"x">> \o Simple(NameB) ->
                IF ~a.ok THEN a ELSE IF ~b.ok THEN b
                ELSE Value(a.val \o <<"x">> \o b.val)
          [] input = Modified(NameA, ColonDash, Braced(NameB)) ->
                IF a.ok /\ a.val # <<>> THEN a ELSE b

\* C16: every lookup of an interpolate_with(text, extra) call, those made
\* while resolving values and default texts included, gives extra's binding
\* for a name bound in extra and the base provider's otherwise; the base
\* bindings are as they were, and a later interpolate(text) sees only them.
C16_InterpolateWithOverlay ==
    /\ context \in OverlayContexts
    /\ pc = "done" /\ op = "interpolate_with" => Outcome(result) = OverlayExpected(TRUE)
    /\ Interpolated => Outcome(result) = OverlayExpected(FALSE)

\* ${C} with A bound to p for the call gave p although the base has A = v.
C16_Witness ==
    /\ pc = "done" /\ op = "interpolate_with"
    /\ input = Braced(NameC)
    /\ NameA \in DOMAIN context /\ context[NameA] = <<"v">>
    /\ extra_vars = (NameA :> <<"p">>)
    /\ Outcome(result) = Value(<<"p">>)

\* The later interpolate of ${C} gave v again.
C16_WitnessLater ==
    /\ Interpolated
    /\ input = Braced(NameC)
    /\ extra_vars = (NameA :> <<"p">>)
    /\ Outcome(result) = Value(<<"v">>)

-----------------------------------------------------------------------------
(* References inside command text *)

\* e followed by a space and the text t: the command text "e t".
CommandWith(t) == <<"e", SP>> \o t

\* A text with the strings its commands are to hand to the shell, given
\* the value a of A, and the name whose lookup is to fail, if any.
CommandVarsCase(text, shell, missing) ==
    [text |-> text, shell |-> shell, missing |-> missing]
CommandVarsCases(a) ==
    { CommandVarsCase(DollarParen(CommandWith(Simple(NameA))),
                      <<CommandWith(a)>>, None),
      CommandVarsCase(Backticked(CommandWith(Braced(NameA))),
                      <<CommandWith(a)>>, None),
      CommandVarsCase(DollarParen(CommandWith(Modified(NameU, ColonDash, <<"d">>))),
                      <<CommandWith(<<"d">>)>>, None),
      CommandVarsCase(Braced(NameB), <<CommandWith(a)>>, None),
      CommandVarsCase(DollarParen(CommandWith(Simple(NameU))), <<>>, Some(NameU)),
      CommandVarsCase(DollarParen(<<"c">>) \o <<"x">>
                          \o Backticked(CommandWith(Braced(NameU))),
                      << <<"c">> >>, Some(NameU)) }

CommandVarsValues == {<<"v">>, <<SOH>>}

CommandVarsInputs == {c.text : c \in CommandVarsCases(<<"v">>)}

\* A has a value, B's value is a command that refers to A, U has none.
CommandVarsContexts ==
    {Bindings((NameA :> a) @@ (NameU :> <<Unbound>>)
                @@ (NameB :> DollarParen(CommandWith(Simple(NameA))))) :
        a \in CommandVarsValues}

CommandVarsConfigs == {[DefaultConfig EXCEPT !.max_depth = d] : d \in {1, DefaultMaxDepth}}

InitCommandVars ==
    /\ context \in CommandVarsContexts
    /\ config \in CommandVarsConfigs
    /\ input \in CommandVarsInputs
    /\ Idle

NextCommandVars == InterpolateAsync \/ CommandCompletes

SpecCommandVars == InitCommandVars /\ [][NextCommandVars]_vars

AllExitsZero == \A i \in 1..Len(exits) : exits[i].kind = "exit_zero"

\* The strings handed to the shell are those of the case, and a missing
\* name ends the call before its command is executed.
CommandVarsResolved(c) ==
    /\ IsPrefix(executed, c.shell)
    /\ AsyncDone /\ AllExitsZero =>
          /\ executed = c.shell
          /\ IF c.missing.some
             THEN Outcome(result) = Failure(MissingVar(c.missing.v))
             ELSE result.ok

\* C17: before interpolate_async executes an enabled command, the
\* references inside its command text are resolved against the provider,
\* starting at depth 0, so the string handed to the shell holds the values;
\* a name in the command text without a value and without a default makes
\* the call fail with MissingVar, and that command is not executed.
C17_CommandTextResolved ==
    \A c \in CommandVarsCases(context[NameA]) :
        input = c.text => CommandVarsResolved(c)

\* The part of C17 that holds: the same when the value of A has none of the
\* two reserved control characters.
C17_ResolvedWithoutPlaceholders ==
    \A c \in CommandVarsCases(context[NameA]) :
        input = c.text /\ ~HasPlaceholder(context[NameA]) => CommandVarsResolved(c)

\* ${B} became the command $(e $A), which ran as "e v", with max_depth 1.
C17_Witness ==
    /\ AsyncDone /\ config.max_depth = 1
    /\ input = Braced(NameB)
    /\ executed = <<CommandWith(<<"v">>)>>
    /\ exits = <<ExitZero(<<"o">>)>>
    /\ Outcome(result) = Value(<<"o">>)

-----------------------------------------------------------------------------
(* Unclosed delimiters *)

MaxBodyLen == 2

\* The three opening delimiters, each with its closing character.
OpenBrace    == [text |-> <<DOLLAR, "{">>, closer |-> "}"]
OpenParen    == [text |-> <<DOLLAR, "(">>, closer |-> ")"]
OpenBacktick == [text |-> <<BT>>, closer |-> BT]
Openers == {OpenBrace, OpenParen, OpenBacktick}

\* The error an opening delimiter at offset pos is to raise.
UnclosedError(o, pos) ==
    IF o = OpenBrace THEN UnclosedBrace(pos)
    ELSE IF o = OpenParen THEN SyntaxError("Unclosed command substitution", pos)
    ELSE SyntaxError("Unclosed backtick command", pos)

\* What follows the opening delimiter up to the end of the text: anything but
\* the closing delimiter and the backslash.
UnclosedBodies(o) ==
    UNION {[1..n -> {"a", "{", "}", "(", ")", "'", BT} \ {o.closer}] : n \in 0..MaxBodyLen}

\* What precedes the opening delimiter: text that is scanned without error.
UnclosedPrefixes ==
    {<<>>, <<"a">>, <<"a", "b">>, <<BS, "n">>, <<"'", DOLLAR, "{", "'">>,
     Simple(NameA), Braced(NameA), DollarParen(<<"c">>)}

UnclosedInputs ==
    UNION {{pre \o o.text \o body : pre \in UnclosedPrefixes, body \in UnclosedBodies(o)} :
              o \in Openers}

UnclosedContexts == {Bindings((NameA :> <<"v">>))}

UnclosedConfigs ==
    {[DefaultConfig EXCEPT !.features.variables = v,
                           !.features.commands = c,
                           !.features.backtick_commands = c] : v, c \in BOOLEAN}

InitUnclosed ==
    /\ context \in UnclosedContexts
    /\ config \in UnclosedConfigs
    /\ input \in UnclosedInputs
    /\ Idle

NextUnclosed == Interpolate \/ InterpolateAsync

SpecUnclosed == InitUnclosed /\ [][NextUnclosed]_vars

\* C19: a ${ without its }, a $( without its ) and a backtick without a
\* closing backtick make the call fail, the first with UnclosedBrace and the
\* other two with SyntaxError, each with the offset of the opening
\* delimiter; interpolate raises them as interpolate_async does, and no
\* command is executed.
C19_UnclosedDelimiters ==
    \A pre \in UnclosedPrefixes, o \in Openers :
        \A body \in UnclosedBodies(o) :
            input = pre \o o.text \o body /\ pc # "idle" =>
                /\ pc = "done"
                /\ Outcome(result) = Failure(UnclosedError(o, Len(pre)))
                /\ executed = <<>>

\* interpolate, with commands disabled, met an unclosed backtick after ${A}.
C19_Witness ==
    /\ Interpolated
    /\ ~config.features.commands
    /\ input = Braced(NameA) \o <<BT, "a">>
    /\ Outcome(result) = Failure(SyntaxError("Unclosed backtick command", 4))

-----------------------------------------------------------------------------
(* The two command syntaxes *)

MaxCmdLen == 4

\* Command texts without backtick, parenthesis, quote or backslash: both
\* syntaxes end them at the same place.
CmdTextChars == {"e", SP, DOLLAR, "{", "}", "A"}
CmdTexts == UNION {[1..n -> CmdTextChars] : n \in 0..MaxCmdLen}

SyntaxInputs == {DollarParen(c) : c \in CmdTexts} \cup {Backticked(c) : c \in CmdTexts}

SyntaxContexts == {Bindings((NameA :> <<"v">>))}

SyntaxConfigs ==
    {[DefaultConfig EXCEPT !.features.commands = TRUE,
                           !.features.backtick_commands = TRUE]}

InitSyntax ==
    /\ context \in SyntaxContexts
    /\ config \in SyntaxConfigs
    /\ input \in SyntaxInputs
    /\ Idle

NextSyntax == InterpolateAsync \/ CommandCompletes

SpecSyntax == InitSyntax /\ [][NextSyntax]_vars

\* The same command text in the other syntax.
OtherSyntax(inp) ==
    IF Head(inp) = BT THEN DollarParen(SubSeq(inp, 2, Len(inp) - 1))
    ELSE Backticked(SubSeq(inp, 3, Len(inp) - 1))

\* interpolate_async(inp) when the commands it runs end as outcomes say, one
\* after the other: what the caller gets and the strings the shell got.
RECURSIVE RunFrom(_, _, _)
RunFrom(step, outcomes, shell) ==
    IF step.state = "return"
    THEN [outcome |-> Outcome(step.result), shell |-> shell, waiting |-> FALSE]
    ELSE IF outcomes = <<>>
    THEN [outcome |-> Outcome(NoResult), shell |-> Append(shell, step.cmd_str), waiting |-> TRUE]
    ELSE RunFrom(resume_commands(context, step.frame, Head(outcomes)),
                 Tail(outcomes), Append(shell, step.cmd_str))

RunAsync(inp, outcomes) == RunFrom(interpolate_async(context, inp), outcomes, <<>>)

\* C20: with both command features enabled, a command text without
\* backtick, parenthesis, quote or backslash gives the same result from
\* interpolate_async in backticks and in $( ), under the same provider: the
\* same string reaches the shell, and the same outcome of the command gives
\* the same value or the same error.
C20_SyntaxesEquivalent ==
    pc # "idle" =>
        LET other == RunAsync(OtherSyntax(input), exits)
        IN  /\ other.shell = executed
            /\ other.waiting <=> pc = "await"
            /\ pc = "done" => other.outcome = Outcome(result)

\* `e $A` in backticks ran as "e v" and gave o, as $(e $A) does.
C20_Witness ==
    /\ AsyncDone
    /\ input = Backticked(CommandWith(Simple(NameA)))
    /\ executed = <<CommandWith(<<"v">>)>>
    /\ exits = <<ExitZero(<<"o", NL>>)>>
    /\ Outcome(result) = Value(<<"o">>)
    /\ RunAsync(DollarParen(CommandWith(Simple(NameA))), exits).outcome = Value(<<"o">>)

-----------------------------------------------------------------------------
(* The scanner's token ranges *)

MaxScanLen == 4

ScanChars == {"a", DOLLAR, "{", "}", "(", ")", BT, BS, SQ}
ScanInputs == UNION {[1..n -> ScanChars] : n \in 0..MaxScanLen}

ScanContexts == {Bindings((NameA :> <<"v">>))}

InitScan ==
    /\ context \in ScanContexts
    /\ config = DefaultConfig
    /\ input \in ScanInputs
    /\ Idle

NextScan == ScanNext

SpecScan == InitScan /\ [][NextScan]_vars

\* No call up to the i-th returned an error.
ScansOkUpTo(i) == \A j \in 1..i : scans[j].kind # "error"

\* Where the cursor was when the i-th call was made.
CursorBefore(i) == IF i = 1 THEN 0 ELSE scans[i - 1].end

\* C21: as long as scanning raises no error, the ranges of successive
\* scan_next calls are non-empty and contiguous from offset 0, the cursor
\* is the end of the last range and never passes the input length, scan_next
\* returns nothing only with the cursor at the input length, and from then
\* on it returns nothing on every call.
C21_TokenPartition ==
    /\ \A i \in 1..Len(scans) :
          ScansOkUpTo(i) =>
              /\ scans[i].kind = "token" =>
                    /\ scans[i].start = CursorBefore(i)
                    /\ scans[i].start < scans[i].end
                    /\ scans[i].end <= Len(input)
              /\ scans[i].kind = "none" =>
                    /\ CursorBefore(i) = Len(input)
                    /\ scans[i].end = Len(input)
              /\ CursorBefore(i) = Len(input) => scans[i].kind = "none"
    /\ ScansOkUpTo(Len(scans)) => byte_idx = CursorBefore(Len(scans) + 1)

\* a$a was scanned as a Literal and a Variable, and two more calls returned
\* nothing.
C21_Witness ==
    /\ input = <<"a", DOLLAR, "a">>
    /\ scans = <<ScanToken(Literal(<<"a">>), 0, 1),
                 ScanToken(Variable(<<"a">>, None, FALSE, FALSE), 1, 3),
                 ScanNone(3), ScanNone(3)>>
    /\ byte_idx = 3

-----------------------------------------------------------------------------
(* Borrowed and owned results *)

MaxPieces == 2

\* Pieces of text, one token each: plain text, an escape pair, a quoted
\* span, two references, two commands and a command with a backslash.
CowPieces ==
    {<<"a">>, <<BS, "n">>, Quoted(<<"q">>), Simple(NameA), Braced(NameA),
     DollarParen(<<"c">>), Backticked(<<"c">>), DollarParen(<<"a", BS, "b">>)}

RECURSIVE Concat(_)
Concat(parts) == IF parts = <<>> THEN <<>> ELSE Head(parts) \o Concat(Tail(parts))

CowInputs == {Concat(q) : q \in UNION {[1..n -> CowPieces] : n \in 0..MaxPieces}}

CowContexts == {Bindings((NameA :> a)) : a \in {<<"v">>, <<>>}}

CowConfigs ==
    {[DefaultConfig EXCEPT !.features.variables = v, !.features.escapes = e] :
        v, e \in BOOLEAN}

InitCow ==
    /\ context \in CowContexts
    /\ config \in CowConfigs
    /\ input \in CowInputs
    /\ Idle

NextCow == Interpolate

SpecCow == InitCow /\ [][NextCow]_vars

\* The tokens of a text from offset idx, up to its end or the first error.
RECURSIVE TokensFrom(_, _)
TokensFrom(inp, idx) ==
    IF scan_next(inp, idx).kind # "token" THEN <<>>
    ELSE <<scan_next(inp, idx).token>> \o TokensFrom(inp, scan_next(inp, idx).end)

\* A token that requires substitution: a Variable with the variables feature
\* enabled, or a Literal with a backslash with the escapes feature enabled.
RequiresSubstitution(token) ==
    \/ token.type = "Variable" /\ config.features.variables
    \/ token.type = "Literal" /\ config.features.escapes /\ Contains(token.text, BS)

SomeTokenSubstituted ==
    \E i \in 1..Len(TokensFrom(input, 0)) : RequiresSubstitution(TokensFrom(input, 0)[i])

\* C22: interpolate returns the input borrowed when no token required
\* substitution (every token a Literal without a processed escape, a command
\* token, or a Variable with the variables feature disabled), and an owned
\* string only when some token was substituted or unescaped.
C22_ZeroCopy ==
    Interpolated /\ result.ok =>
        /\ result.owned <=> SomeTokenSubstituted
        /\ ~result.owned => result.val = input

\* A command token with a backslash in its text.
CommandWithBackslash ==
    \E i \in 1..Len(TokensFrom(input, 0)) :
        /\ TokensFrom(input, 0)[i].type \in {"Command", "BacktickCommand"}
        /\ Contains(TokensFrom(input, 0)[i].text, BS)

\* The part of C22 that holds: the same with the variables feature enabled
\* and no backslash inside a command.
C22_ZeroCopyWithVariables ==
    Interpolated /\ result.ok /\ config.features.variables /\ ~CommandWithBackslash =>
        /\ result.owned <=> SomeTokenSubstituted
        /\ ~result.owned => result.val = input

\* What the code does with the variables feature disabled: a Variable token
\* makes the result owned although its text is copied unchanged.
C22_OwnedWhenDisabled ==
    Interpolated /\ result.ok /\ ~config.features.variables /\ ~CommandWithBackslash =>
        result.owned <=>
            \/ SomeTokenSubstituted
            \/ \E i \in 1..Len(TokensFrom(input, 0)) :
                  TokensFrom(input, 0)[i].type = "Variable"

\* $A with the variables feature disabled came back unchanged.
C22_Witness ==
    /\ Interpolated /\ result.ok
    /\ ~config.features.variables
    /\ input = Simple(NameA)
    /\ result.val = input

-----------------------------------------------------------------------------
(* Command tokens in the synchronous pass *)

\* Command texts: without a backslash, with an escape pair, with an escaped
\* backslash.
VerbatimCmdTexts == {<<"c">>, <<"a", BS, "n", "b">>, <<"a", BS, BS>>}

VerbatimCommands ==
    {DollarParen(c) : c \in VerbatimCmdTexts} \cup {Backticked(c) : c \in VerbatimCmdTexts}

\* What stands around the command, with what it comes out as: nothing,
\* plain text, a reference to A (bound to v), an escape pair.
Around(text, out) == [text |-> text, out |-> out]
VerbatimAround ==
    {Around(<<>>, <<>>), Around(<<"x">>, <<"x">>), Around(Simple(NameA), <<"v">>),
     Around(<<BS, "t">>, IF config.features.escapes THEN <<TAB>> ELSE <<BS, "t">>)}

VerbatimInputs ==
    {pre \o cmd \o post :
        pre \in {<<>>, <<"x">>, Simple(NameA), <<BS, "t">>},
        cmd \in VerbatimCommands,
        post \in {<<>>, <<"x">>, Simple(NameA), <<BS, "t">>}}

VerbatimContexts == {Bindings((NameA :> <<"v">>))}

\* The command features are disabled, so that interpolate_async returns what
\* its first pass gave.
VerbatimConfigs ==
    {[DefaultConfig EXCEPT !.features.escapes = e,
                           !.features.commands = FALSE,
                           !.features.backtick_commands = FALSE] : e \in BOOLEAN}

InitVerbatim ==
    /\ context \in VerbatimContexts
    /\ config \in VerbatimConfigs
    /\ input \in VerbatimInputs
    /\ Idle

NextVerbatim == Interpolate \/ InterpolateAsync

SpecVerbatim == InitVerbatim /\ [][NextVerbatim]_vars

\* The command token of the text pre cmd post comes out as its source text.
EmittedVerbatim(pre, cmd, post) ==
    pc = "done" /\ input = pre.text \o cmd \o post.text =>
        Outcome(result) = Value(pre.out \o cmd \o post.out)

\* C23: interpolate, and the first pass of interpolate_async, emit every
\* Command and BacktickCommand token as its exact source text, whatever
\* surrounds it, also when the command text has backslashes and the escapes
\* feature is enabled.
C23_CommandsVerbatim ==
    \A pre \in VerbatimAround, post \in VerbatimAround, cmd \in VerbatimCommands :
        EmittedVerbatim(pre, cmd, post)

\* The part of C23 that holds: the same when escapes is disabled, when the
\* command text has no backslash, or when a token of the text is substituted
\* or unescaped.
C23_VerbatimBesideSubstitution ==
    \A pre \in VerbatimAround, post \in VerbatimAround, cmd \in VerbatimCommands :
        \/ ~config.features.escapes
        \/ ~Contains(cmd, BS)
        \/ pre.text \in {Simple(NameA), <<BS, "t">>}
        \/ post.text \in {Simple(NameA), <<BS, "t">>}
        => EmittedVerbatim(pre, cmd, post)

\* interpolate returned $(a\nb) with its escape pair unescaped.
C23_Witness ==
    /\ Interpolated
    /\ config.features.escapes
    /\ input = DollarParen(<<"a", BS, "n", "b">>)
    /\ Outcome(result) = Value(DollarParen(<<"a", NL, "b">>))

-----------------------------------------------------------------------------
(* What a dollar sign starts *)

MaxDollarRest == 3

\* What follows the $: letters, an underscore, a digit, a space, a letter
\* outside ASCII, braces and parentheses.
DollarRestChars == {"a", "_", "0", SP, EACUTE, "{", "}", "(", ")"}

DollarInputs ==
    {pre \o <<DOLLAR>> \o rest :
        pre \in {<<>>, <<"a">>},
        rest \in UNION {[1..n -> DollarRestChars] : n \in 0..MaxDollarRest}}

InitDollar ==
    /\ context \in ScanContexts
    /\ config = DefaultConfig
    /\ input \in DollarInputs
    /\ Idle

NextDollar == ScanNext

SpecDollar == InitDollar /\ [][NextDollar]_vars

IsNameChar(c) == IsAlphanumeric(c) \/ c = "_"

\* The end of the longest run of name characters of s from offset i.
RunEnd(s, i) ==
    CHOOSE k \in i..Len(s) :
        /\ \A j \in i..(k - 1) : IsNameChar(At(s, j))
        /\ k = Len(s) \/ ~IsNameChar(At(s, k))

\* What the call that found the cursor at a $ at offset at is to return,
\* when a simple variable starts where starts(c) holds of the next character.
DollarDispatch(scan, at, starts(_)) ==
    IF at + 1 < Len(input) /\ At(input, at + 1) = "{"
    THEN \/ scan.kind = "error" /\ scan.err = UnclosedBrace(at)
         \/ scan.kind = "token" /\ scan.token.type = "Variable" /\ scan.start = at
    ELSE IF at + 1 < Len(input) /\ At(input, at + 1) = "("
    THEN \/ scan.kind = "error" /\ scan.err.kind = "SyntaxError" /\ scan.err.pos = at
         \/ scan.kind = "token" /\ scan.token.type = "Command" /\ scan.start = at
    ELSE IF at + 1 < Len(input) /\ starts(At(input, at + 1))
    THEN scan = ScanToken(Variable(Slice(input, at + 1, RunEnd(input, at + 1)),
                                   None, FALSE, FALSE),
                          at, RunEnd(input, at + 1))
    ELSE scan = ScanToken(Literal(<<DOLLAR>>), at, at + 1)

DollarCalls(starts(_)) ==
    \A i \in 1..Len(scans) :
        ScansOkUpTo(i - 1) /\ CursorBefore(i) < Len(input)
            /\ At(input, CursorBefore(i)) = DOLLAR
        => DollarDispatch(scans[i], CursorBefore(i), starts)

StartsAsciiName(c) == c \in AsciiLetters \/ c = "_"
StartsAlphabeticName(c) == IsAlphabetic(c) \/ c = "_"

\* C24: a $ followed by an ASCII letter or _ starts a simple variable whose
\* name is the longest following run of alphanumeric or _ characters, with
\* no default, strict and conditional false; followed by { or ( it starts a
\* braced variable or a command; followed by anything else (a digit, a
\* space, a character outside ASCII) or by the end of the text it is a
\* one-character Literal, and no error is raised.
C24_DollarDispatch == DollarCalls(StartsAsciiName)

\* What the code does: any alphabetic character, also one outside ASCII,
\* starts a simple variable.
C24_DispatchOnAlphabetic == DollarCalls(StartsAlphabeticName)

\* $ followed by the letter outside ASCII was scanned as a Variable.
C24_Witness ==
    /\ input = <<DOLLAR, EACUTE>>
    /\ Len(scans) >= 1
    /\ scans[1].kind = "token"
    /\ scans[1].token = Variable(<<EACUTE>>, None, FALSE, FALSE)

-----------------------------------------------------------------------------
(* Braced variables *)

MaxContentLen == 4

NameEmpty == <<>>

BracedChars == {"A", ":", "-", "+", "{", "}"}

\* ${, a content of up to MaxContentLen characters, and }.
BracedInputs ==
    {<<DOLLAR, "{">> \o content \o <<"}">> :
        content \in UNION {[1..n -> BracedChars] : n \in 0..MaxContentLen}}

\* The empty name and A have a value.
BracedContexts == {Bindings((NameEmpty :> <<"k">>) @@ (NameA :> <<"v">>))}

InitBraced ==
    /\ context \in BracedContexts
    /\ config = DefaultConfig
    /\ input \in BracedInputs
    /\ Idle

NextBraced == ScanNext \/ Interpolate

SpecBraced == InitBraced /\ [][NextBraced]_vars

\* The number of characters c of s at the offsets from..to.
Count(s, from, to, c) == Cardinality({j \in from..to : At(s, j) = c})

\* The offsets at which the brace depth of the text, 1 after its ${, is zero.
DepthZero == {k \in 2..(Len(input) - 1) :
                 Count(input, 2, k, "}") = 1 + Count(input, 2, k, "{")}

Least(set) == CHOOSE k \in set : \A m \in set : k <= m

\* The content between ${ and the } that brings the depth back to zero.
BracedContent == Slice(input, 2, Least(DepthZero))

\* The offsets of the content at which a modifier starts.
ModifierStarts(content) ==
    {i \in 0..(Len(content) - 1) :
        \/ At(content, i) \in {"-", "+"}
        \/ /\ At(content, i) = ":"
           /\ i + 1 < Len(content)
           /\ At(content, i + 1) \in {"-", "+"}}

\* The Variable token of a content: the name before the first modifier, the
\* raw text after it, and the flags of the modifier.
BracedToken(content) ==
    IF ModifierStarts(content) = {} THEN Variable(content, None, FALSE, FALSE)
    ELSE LET i == Least(ModifierStarts(content))
             colon == At(content, i) = ":"
             sign == IF colon THEN At(content, i + 1) ELSE At(content, i)
         IN  Variable(Slice(content, 0, i),
                      Some(From(content, IF colon THEN i + 2 ELSE i + 1)),
                      colon, sign = "+")

\* C25: the } that closes ${ is the one that brings the brace depth back to
\* zero; the name is the content before the first :-, :+, - or +, the
\* default is the raw text after that modifier, (strict, conditional) are
\* (true, false), (true, true), (false, false), (false, true); without a
\* modifier there is no default; an empty name is legal and is looked up as
\* the empty key.
C25_BracedVariable ==
    /\ Len(scans) >= 1 =>
          IF DepthZero = {} THEN scans[1] = ScanErr(UnclosedBrace(0))
          ELSE scans[1] = ScanToken(BracedToken(BracedContent), 0, Least(DepthZero) + 1)
    /\ Interpolated /\ DepthZero # {} => BracedToken(BracedContent).name \in result.looked
    /\ Interpolated /\ input = Braced(NameEmpty) =>
          Outcome(result) = Value(<<"k">>) /\ result.looked = {NameEmpty}

\* ${A-{}} is one token: the name A with the default {}.
C25_Witness ==
    /\ input = <<DOLLAR, "{", "A", "-", "{", "}", "}">>
    /\ Len(scans) >= 1
    /\ scans[1] = ScanToken(Variable(NameA, Some(<<"{", "}">>), FALSE, FALSE), 0, 7)

\* ${} was interpolated to the value of the empty name.
C25_WitnessEmptyName ==
    /\ Interpolated /\ input = Braced(NameEmpty)
    /\ Outcome(result) = Value(<<"k">>)

-----------------------------------------------------------------------------
(* Commands after literal text *)

\* Literal text and references before the first command: nothing, plain
\* text, an escape pair, a quoted span, a reference, an escaped backslash,
\* an escaped quote.
HonouredPrefixes ==
    {<<>>, <<"x">>, <<BS, "n">>, Quoted(<<"q">>), Simple(NameA), <<BS, BS>>, <<BS, SQ>>}

\* One command, or two, of either syntax: the first runs c, the second e.
HonouredCommands ==
    LET first == {DollarParen(<<"c">>), Backticked(<<"c">>)}
        second == {DollarParen(<<"e">>), Backticked(<<"e">>)}
    IN  {[text |-> k, shell |-> << <<"c">> >>] : k \in first}
        \cup {[text |-> k1 \o k2, shell |-> << <<"c">>, <<"e">> >>] :
                 k1 \in first, k2 \in second}

HonouredInputs == {pre \o cmds.text : pre \in HonouredPrefixes, cmds \in HonouredCommands}

HonouredContexts == {Bindings((NameA :> <<"v">>))}

InitHonoured ==
    /\ context \in HonouredContexts
    /\ config = DefaultConfig
    /\ input \in HonouredInputs
    /\ Idle

NextHonoured == InterpolateAsync \/ CommandCompletes

SpecHonoured == InitHonoured /\ [][NextHonoured]_vars

\* The commands of the text pre cmds are executed once each, in order.
Honoured(pre, cmds) ==
    input = pre \o cmds.text =>
        /\ IsPrefix(executed, cmds.shell)
        /\ AsyncDone /\ AllExitsZero => executed = cmds.shell

\* C26: when the synchronous pass succeeds, interpolate_async executes each
\* top-level command token of the input whose feature is enabled exactly
\* once, left to right, whatever literal text precedes it, escape sequences
\* such as an escaped backslash or an escaped quote included.
C26_CommandsHonoured ==
    \A pre \in HonouredPrefixes, cmds \in HonouredCommands : Honoured(pre, cmds)

\* The part of C26 that holds: the same when the text before the first
\* command is not an escaped backslash or an escaped quote.
C26_HonouredAfterOtherText ==
    \A pre \in HonouredPrefixes \ {<<BS, BS>>, <<BS, SQ>>}, cmds \in HonouredCommands :
        Honoured(pre, cmds)

\* After an escaped backslash, $(c) was not executed: the call returned a
\* backslash and the command's source text.
C26_Witness ==
    /\ AsyncDone
    /\ input = <<BS, BS>> \o DollarParen(<<"c">>)
    /\ executed = <<>>
    /\ Outcome(result) = Value(<<BS>> \o DollarParen(<<"c">>))

-----------------------------------------------------------------------------
(* The asynchronous call without commands *)

\* Pieces of text: plain text, an escape pair, an escaped $ and backtick,
\* the character U+0000, references to a set name, to an unset name and to
\* a name whose value is a command, and the two command syntaxes.
SamePieces ==
    {<<"a">>, <<BS, "n">>, <<BS, DOLLAR>>, <<BS, BT>>, <<NUL>>,
     Simple(NameA), Braced(NameU), Braced(NameB),
     DollarParen(<<"c">>), Backticked(<<"c">>)}

SameInputs == {Concat(q) : q \in UNION {[1..n -> SamePieces] : n \in 0..MaxPieces}}

SameContexts ==
    {Bindings((NameA :> <<"v">>) @@ (NameB :> DollarParen(<<"c">>))
                @@ (NameU :> <<Unbound>>))}

SameConfigs ==
    {[DefaultConfig EXCEPT !.features.escapes = e,
                           !.features.commands = c,
                           !.features.backtick_commands = b] : e, c, b \in BOOLEAN}

InitSame ==
    /\ context \in SameContexts
    /\ config \in SameConfigs
    /\ input \in SameInputs
    /\ Idle

NextSame == Interpolate \/ InterpolateAsync \/ CommandCompletes

SpecSame == InitSame /\ [][NextSame]_vars

\* The first pass failed, or its output has neither $( nor a backtick.
NoCommandSyntax(first) ==
    first.ok => ~ContainsPair(first.val, DOLLAR, "(") /\ ~Contains(first.val, BT)

\* C27: when both command features are disabled, or the output of the first
\* pass has neither $( nor a backtick, interpolate_async returns what
\* interpolate returns on the same text, value or error, and executes no
\* command.
C27_AsyncEqualsSync ==
    /\ op = "interpolate_async"
    /\ \/ ~config.features.commands /\ ~config.features.backtick_commands
       \/ NoCommandSyntax(resolve(context, input, 0))
    => /\ pc = "done"
       /\ executed = <<>>
       /\ Outcome(result) = Outcome(interpolate(context, input))
       /\ result.ok => result.owned = interpolate(context, input).owned

\* With commands enabled, an escaped $ before plain text gave $a from
\* interpolate_async, as from interpolate.
C27_Witness ==
    /\ AsyncDone
    /\ config.features.commands /\ config.features.escapes
    /\ input = <<BS, DOLLAR, "a">>
    /\ Outcome(result) = Value(<<DOLLAR, "a">>)
    /\ Outcome(interpolate(context, input)) = Value(<<DOLLAR, "a">>)

\* With both command features disabled, $(c) came back from interpolate_async
\* as its source text.
C27_WitnessDisabled ==
    /\ AsyncDone
    /\ ~config.features.commands /\ ~config.features.backtick_commands
    /\ input = DollarParen(<<"c">>)
    /\ Outcome(result) = Value(input)

-----------------------------------------------------------------------------
(* Commands in values and in command outputs *)

\* A text without command syntax, with what precedes and follows the output
\* of the command its reference brings in, given the value a of A.
RescanCase(text, before, after) == [text |-> text, before |-> before, after |-> after]
RescanCases(a) ==
    { RescanCase(Braced(NameB), <<>>, <<>>),
      RescanCase(Simple(NameB), <<>>, <<>>),
      RescanCase(<<"x">> \o Braced(NameC) \o <<"x">>, <<"x">>, <<"x">>),
      RescanCase(Modified(NameU, ColonDash, Simple(NameB)), <<>>, <<>>),
      RescanCase(Simple(NameA) \o Braced(NameC), a, <<>>),
      RescanCase(Braced(NameB) \o Simple(NameA), <<>>, a) }

\* A text with a command of its own.
RescanDirect == {DollarParen(<<"c">>), Backticked(<<"c">>)}

RescanInputs == {c.text : c \in RescanCases(<<>>)} \cup RescanDirect

\* The value of B is $(c), the value of C is c in backticks.
RescanContexts ==
    {Bindings((NameA :> a) @@ (NameB :> DollarParen(<<"c">>))
                @@ (NameC :> Backticked(<<"c">>)) @@ (NameU :> <<Unbound>>)) :
        a \in {<<"v">>, <<>>}}

InitRescan ==
    /\ context \in RescanContexts
    /\ config = DefaultConfig
    /\ input \in RescanInputs
    /\ Idle

NextRescan == InterpolateAsync \/ CommandCompletes

SpecRescan == InitRescan /\ [][NextRescan]_vars

\* The one command c was executed, and its output stands between before and
\* after as the command printed it, trailing whitespace apart.
ExecutedOnce(before, after) ==
    /\ pc = "await" => executed = << <<"c">> >> /\ exits = <<>>
    /\ AsyncDone =>
          /\ executed = << <<"c">> >>
          /\ Len(exits) = 1
          /\ exits[1].kind = "exit_zero" =>
                /\ result.ok
                /\ \E out \in Splicings(exits[1].stdout) :
                      result.val = before \o out \o after

\* C28: in interpolate_async with commands enabled, a command in the value
\* of a variable is executed although the input has no command syntax, and
\* the output of an executed command is spliced in as it is: command or
\* variable syntax in it is neither executed nor expanded.
C28_ValuesRescannedOutputsNot ==
    /\ \A c \in RescanCases(context[NameA]) :
          input = c.text /\ op = "interpolate_async" => ExecutedOnce(c.before, c.after)
    /\ input \in RescanDirect /\ op = "interpolate_async" => ExecutedOnce(<<>>, <<>>)

\* ${B}$A ran the command c of B's value, whose output $(e)$A was returned
\* as it is, followed by the value of A.
C28_Witness ==
    /\ AsyncDone
    /\ input = Braced(NameB) \o Simple(NameA)
    /\ context[NameA] = <<"v">>
    /\ executed = << <<"c">> >>
    /\ exits = <<ExitZero(SyntaxStdout)>>
    /\ Outcome(result) = Value(SyntaxStdout \o <<"v">>)

-----------------------------------------------------------------------------
(* An opening quote without a closing quote *)

\* What follows the opening quote: references, commands, plain text and an
\* escaped quote, and no quote of its own.
OpenQuotePieces ==
    {<<"a">>, Simple(NameA), Braced(NameU), DollarParen(<<"c">>), Backticked(<<"c">>),
     <<BS, SQ>>}

\* What precedes it: nothing, plain text, a quoted span, an escaped backslash.
OpenQuotePrefixes == {<<>>, <<"x">>, Quoted(<<"q">>), <<BS, BS>>}

OpenQuoteInputs ==
    {pre \o <<SQ>> \o Concat(q) :
        pre \in OpenQuotePrefixes,
        q \in UNION {[1..n -> OpenQuotePieces] : n \in 1..MaxPieces}}

OpenQuoteContexts == {Bindings((NameA :> <<"v">>) @@ (NameU :> <<Unbound>>))}

OpenQuoteConfigs == {[DefaultConfig EXCEPT !.features.escapes = e] : e \in BOOLEAN}

InitOpenQuote ==
    /\ context \in OpenQuoteContexts
    /\ config \in OpenQuoteConfigs
    /\ input \in OpenQuoteInputs
    /\ Idle

NextOpenQuote ==
    Interpolate \/ InterpolateAsync \/ CommandCompletes \/ FindVariableReferences

SpecOpenQuote == InitOpenQuote /\ [][NextOpenQuote]_vars

\* Nothing after the opening quote is expanded, executed or reported, and
\* no call fails.
QuoteAbsorbsRest ==
    /\ executed = <<>>
    /\ pc = "done" /\ op = "find_variable_references" => refs = <<>>
    /\ Interpolated \/ AsyncDone =>
          /\ result.ok
          /\ result.looked = {}
          /\ ~Contains(input, BS) => result.val = input

\* C29: an opening quote at top level without a closing quote is no error:
\* the rest of the text is part of the Literal, so that no variable or
\* command after it is expanded, executed or reported by
\* find_variable_references, and no operation returns UnclosedQuote.
C29_UnclosedQuoteAbsorbs ==
    /\ QuoteAbsorbsRest
    /\ pc = "done" /\ ~result.ok => result.err.kind # "UnclosedQuote"

\* The part of C29 that holds: the same for interpolate and
\* find_variable_references, and for interpolate_async when no backslash of
\* the text is unescaped.
C29_AbsorbsWithoutUnescaping ==
    /\ op # "interpolate_async" \/ ~config.features.escapes \/ ~Contains(input, BS)
          => QuoteAbsorbsRest
    /\ pc = "done" /\ ~result.ok => result.err.kind # "UnclosedQuote"

\* After an escaped backslash and an opening quote, $(c) was executed.
C29_Witness ==
    /\ op = "interpolate_async"
    /\ input = <<BS, BS, SQ>> \o DollarParen(<<"c">>)
    /\ executed = << <<"c">> >>

\* '$A$(c) came back from interpolate_async as it is.
C29_WitnessAbsorbed ==
    /\ AsyncDone
    /\ input = <<SQ>> \o Simple(NameA) \o DollarParen(<<"c">>)
    /\ executed = <<>>
    /\ Outcome(result) = Value(input)

-----------------------------------------------------------------------------
(* References before and after a malformed construct *)

MaxLeading == 2

\* What follows the opening delimiter: nothing or one piece that does not
\* close it (a piece has as many closing braces and parentheses as opening
\* ones; a piece with a backtick would close an opening backtick).
MalformedRests(o) ==
    {<<>>} \cup {g.text : g \in {h \in Segments : ~(o = OpenBacktick /\ Contains(h.text, BT))}}

MalformedInputs ==
    UNION {{SegmentsText(q) \o o.text \o rest :
                q \in SegmentSeqs(MaxLeading), rest \in MalformedRests(o)} :
              o \in Openers}

InitMalformed ==
    /\ context = Bindings((NameA :> <<Unbound>>))
    /\ config = DefaultConfig
    /\ input \in MalformedInputs
    /\ Idle

NextMalformed == FindVariableReferences

SpecMalformed == InitMalformed /\ [][NextMalformed]_vars

\* C30: find_variable_references never fails: on a text in which the scanner
\* raises an error (unclosed brace, command or backtick) it returns the
\* sorted names, each once, of the Variable tokens before the malformed
\* construct, and no name after it.
C30_StopsAtMalformed ==
    Extracted =>
        \A q \in SegmentSeqs(MaxLeading), o \in Openers :
            \A rest \in MalformedRests(o) :
                input = SegmentsText(q) \o o.text \o rest
                    => /\ scan_next(input, Len(SegmentsText(q))).kind = "error"
                       /\ refs = SortNames(TopLevelNames(SegmentsText(q)))

\* ${B}$A${$a gave <<A, B>>: the names before the unclosed brace, sorted,
\* without the name after it.
C30_Witness ==
    /\ Extracted
    /\ input = Braced(NameB) \o Simple(NameA) \o OpenBrace.text \o Simple(NameLower)
    /\ refs = <<NameA, NameB>>

=============================================================================
